---- MODULE Spec2Model ----
(***************************************************************************)
(* The node-level bootstrap manager of the storage engine                  *)
(* (package storage, bootstrapManager) as a state machine.  Every caller   *)
(* is a goroutine that invokes Bootstrap() once; the sections that run     *)
(* under the manager's mutex are single atomic steps, everything between   *)
(* two lock sections interleaves freely with the other callers.            *)
(* SpecRanges applies targetRanges by itself to a range of times and       *)
(* retention options; SpecReport adds a goroutine that calls Report().     *)
(***************************************************************************)
EXTENDS Integers, Sequences, FiniteSets, TLC

\* ---------------------------------------------------------------- bounds
NumCallers == 3
MaxNamespaces == 2
MaxTicks == 1
NowStart == 600
TickSize == 45

\* The arguments targetRanges is tried on by itself: times from TimeFrom to
\* TimeFrom + TimeSpan, block sizes from 1 to MaxBlockSize, retention
\* periods from 0 to MaxPeriod, both buffers from 0 to MaxBuffer.
TimeFrom == 999997
TimeSpan == 6
MaxBlockSize == 3
MaxPeriod == 10
MaxBuffer == 3

\* The bootstrapper chain is tried on the shards 1..MaxShards with
\* MaxStages bootstrappers before its terminal one.
MaxShards == 2
MaxStages == 2

\* A consistency result is built for up to MaxNodes nodes and from up to
\* MaxErrs errors.
MaxNodes == 3
MaxErrs == 3

\* DeleteFiles is given up to MaxFiles paths out of MaxPaths.
MaxPaths == 3
MaxFiles == 3

\* A shard directory holds filesets for up to MaxFilesets block starts.
MaxFilesets == 2

\* An opArrayPool is created with a size up to MaxPoolSize and a capacity
\* up to MaxCapacity; its client holds up to MaxHeld arrays of up to
\* MaxOps ops.
MaxPoolSize == 2
MaxCapacity == 2
MaxHeld == 2
MaxOps == 3

\* A namespace on its own takes up to MaxWrites writes.
MaxWrites == 1

Callers == 1..NumCallers

\* ------------------------------------------------------- bootstrapState
bootstrapNotStarted == "bootstrapNotStarted"
bootstrapping == "bootstrapping"
bootstrapped == "bootstrapped"
bootstrapState == {bootstrapNotStarted, bootstrapping, bootstrapped}

errBootstrapEnqueued == "errBootstrapEnqueued"
errNamespaceIsBootstrapping == "errNamespaceIsBootstrapping"
errShardNotBootstrappedToFlush == "errShardNotBootstrappedToFlush"
errShardNotBootstrappedToRead == "errShardNotBootstrappedToRead"

\* The manager's lock is held by nobody (a holder is one of Callers).
unlocked == 0

\* Outcomes of one namespace.Bootstrap call as seen by the manager.
NamespaceOutcomes == {"nil", "err", "panic"}

\* Retention options of the node, in units of two minutes
\* (6h period, 2h blocks, 10m buffer past, 2m buffer future).
ropts == [RetentionPeriod |-> 180, BlockSize |-> 60, BufferPast |-> 5, BufferFuture |-> 1]

VARIABLES
    state,            \* m.state
    hasPending,       \* m.hasPending
    fileOpsDisabled,  \* the mediator's file operations toggle
    nowFn,            \* the value the injected clock returns
    ownedNamespaces,  \* what database.getOwnedNamespaces() returns
    pc,               \* where each caller is inside Bootstrap()
    active,           \* the goroutines that call Bootstrap(), once each
    result,           \* what the caller's last Bootstrap() call returned
    multiErr,         \* how many errors Bootstrap()'s multiErr holds, per running call
    passErr,          \* bootstrap()'s multiErr, per running pass: the namespaces that failed
    ranges,           \* bootstrap()'s targetRanges, per running pass
    snapshot,         \* the namespaces bootstrap() is ranging over
    nsIdx,            \* position of the range loop in the snapshot
    panicking,        \* a panic is unwinding the caller's Bootstrap()
    startPhase,       \* m.state as the caller's last call found it
    passes,           \* m.bootstrap() invocations of the caller's last call
    disCalls,         \* DisableFileOps invocations of the last call
    enCalls,          \* EnableFileOps invocations of the last call
    enqSince,         \* calls enqueued since the runner last held the lock
    kPerPass,         \* per finished pass of the call: calls enqueued in it
    quiet,            \* no other call entered since the caller's call did
    phaseHist,        \* every value m.state has taken, in order
    served,           \* per enqueued call: has a later pass begun, has it ended
    passCalls,        \* per running pass: the namespace.Bootstrap calls made, with their ranges
    errSeen,          \* per running call: namespace.Bootstrap calls that returned an error
    targetRangesCall, \* a call of targetRanges on its own: its arguments and what it returned
    mu,               \* who holds the manager's lock (the embedded sync.RWMutex) for writing
    ops,              \* per call: the operations it has invoked on the manager's collaborators
    status,           \* m.status, the gauge Report() updates: -1 until its first update
    reportPc,         \* where the goroutine that calls Report() is
    observed,         \* what IsBootstrapped() returned to the Report() in progress
    chainRun,         \* a run of the bootstrapper chain on its own
    dbNamespace,      \* one namespace on its own: its shards, its bootstrap calls, its writes
    consistencyCall,  \* one call of newConsistencyResultError: its arguments and its result
    deleteCall,       \* one call of DeleteFiles: the paths on disk, its argument, its progress
    shardDir,         \* the fileset files of one shard directory and one pass of forEachInfoFile
    opPool,           \* an opArrayPool, the arrays its client holds and what Get last returned
    schema            \* the msgpack field tables, the progress of init() and one lookup

mgrVars == <<state, hasPending, mu>>
envVars == <<fileOpsDisabled, nowFn, ownedNamespaces>>
callVars == <<pc, active, result, multiErr, passErr, ranges, snapshot, nsIdx, panicking>>
histVars == <<startPhase, passes, disCalls, enCalls, enqSince, kPerPass,
              quiet, phaseHist, served, passCalls, errSeen, ops>>
vars == <<mgrVars, envVars, callVars, histVars, targetRangesCall, status, reportPc, observed,
         chainRun,
         dbNamespace,
         consistencyCall,
         deleteCall,
         shardDir,
         opPool,
         schema>>

\* ------------------------------------------------------------ operators

\* time.Time.Truncate: round t down to a multiple of d; d <= 0 returns t.
Truncate(t, d) == IF d <= 0 THEN t ELSE t - (t % d)

\* Variant: the middle point is left at the start of its block.
targetRangesMidPointNotAdvanced(at, r) ==
    LET start == Truncate(at - r.RetentionPeriod, r.BlockSize)
        midPoint == Truncate((at - r.BlockSize) - r.BufferPast, r.BlockSize)
        cutover == Truncate(at + r.BufferFuture, r.BlockSize) + r.BlockSize
    IN  << [Start |-> start, End |-> midPoint, Incremental |-> TRUE],
           [Start |-> midPoint, End |-> cutover, Incremental |-> FALSE] >>

\* Variant: the cutover is left at the start of its block.
targetRangesCutoverNotAdvanced(at, r) ==
    LET start == Truncate(at - r.RetentionPeriod, r.BlockSize)
        midPoint == Truncate((at - r.BlockSize) - r.BufferPast, r.BlockSize) + r.BlockSize
        cutover == Truncate(at + r.BufferFuture, r.BlockSize)
    IN  << [Start |-> start, End |-> midPoint, Incremental |-> TRUE],
           [Start |-> midPoint, End |-> cutover, Incremental |-> FALSE] >>

\* bootstrapManager.targetRanges
targetRanges(at, r) ==
    LET start == Truncate(at - r.RetentionPeriod, r.BlockSize)
        midPoint == Truncate((at - r.BlockSize) - r.BufferPast, r.BlockSize) + r.BlockSize
        cutover == Truncate(at + r.BufferFuture, r.BlockSize) + r.BlockSize
    IN  << [Start |-> start, End |-> midPoint, Incremental |-> TRUE],
           [Start |-> midPoint, End |-> cutover, Incremental |-> FALSE] >>

\* Variant: a manager that has started bootstrapping counts as bootstrapped.
IsBootstrappedOnceStarted == state # bootstrapNotStarted

\* bootstrapManager.IsBootstrapped
IsBootstrapped == state = bootstrapped

\* multiErr.FinalError(): nil when nothing was added.  Errors are opaque
\* values, and Bootstrap()'s multiErr is kept as the number of them it holds.
FinalError(errs) == IF errs = 0 THEN "nil" ELSE "err"

\* ---------------------------------------------------------------- Init

\* No call of targetRanges on its own has been made.
NoCall == [at |-> 0, ropts |-> ropts, result |-> <<>>]

\* No run of the bootstrapper chain on its own has been made.
NoChainRun ==
    [input |-> {}, terminal |-> "NoOpAll", stage |-> 0, residue |-> {},
     received |-> <<>>, fulfilledBy |-> <<>>, outcome |-> "none",
     fulfilled |-> {}, unfulfilled |-> {}]

\* An error value is the chain it unwraps to through InnerError, outermost
\* first; nil is the empty chain.  "badRequest" and "internal" are
\* *rpc.Error values of that type, "wrap" an error that contains another.
nil == <<>>

\* The zero consistencyResultErr.
ZeroResult ==
    [success |-> 0, enqueued |-> 0, responded |-> 0, topLevelErr |-> nil, errs |-> <<>>]

\* No call of newConsistencyResultError is looked at.
NoConsistencyCall ==
    [errs |-> <<>>, enqueued |-> 0, responded |-> 0, called |-> FALSE,
     result |-> ZeroResult]

\* No call of DeleteFiles is looked at.
NoDeleteCall ==
    [before |-> {}, exists |-> {}, files |-> <<>>, i |-> 1, errs |-> 0,
     pc |-> "idle", ret |-> "none"]

\* A shard directory without files and no pass over it.  A file is its
\* content, 0 when it does not exist.
EmptyShardDir ==
    [info |-> [b \in 1..MaxFilesets |-> 0],
     digest |-> [b \in 1..MaxFilesets |-> 0],
     checkpoint |-> [b \in 1..MaxFilesets |-> 0],
     pc |-> "idle", infoFiles |-> <<>>, i |-> 1, visited |-> <<>>]

\* The msgpack object types and the number of them (schema.go, iota).
unknownType == 0
rootObjectType == 1
indexInfoType == 2
indexSummariesInfoType == 3
indexBloomFilterInfoType == 4
indexEntryType == 5
indexSummaryType == 6
logInfoType == 7
logEntryType == 8
logMetadataType == 9
numObjectTypes == 10

\* The minimum and the current number of fields of each object type.
minNumRootObjectFields == 2
minNumIndexInfoFields == 6
minNumIndexSummariesInfoFields == 1
minNumIndexBloomFilterInfoFields == 2
minNumIndexEntryFields == 5
minNumIndexSummaryFields == 3
minNumLogInfoFields == 3
minNumLogEntryFields == 7
minNumLogMetadataFields == 3
currNumRootObjectFields == 2
currNumIndexInfoFields == 8
currNumIndexSummariesInfoFields == 1
currNumIndexBloomFilterInfoFields == 2
currNumIndexEntryFields == 5
currNumIndexSummaryFields == 3
currNumLogInfoFields == 3
currNumLogEntryFields == 7
currNumLogMetadataFields == 3

\* A slice of n ints, all zero, indexed from 0; nil is the slice of 0 ints.
MakeInts(n) == [i \in 0..(n - 1) |-> 0]

\* The package before init() has run.  No lookup is looked at.
NoSchema ==
    [minNumObjectFields |-> MakeInts(0), currNumObjectFields |-> MakeInts(0),
     pc |-> 0, objType |-> 0, called |-> FALSE, panicked |-> FALSE,
     min |-> 0, curr |-> 0]

\* An array of ops is its length and its capacity.  No pool is looked at.
NoOpPool ==
    [size |-> 0, capacity |-> 0, pool |-> <<>>, held |-> <<>>,
     got |-> [valid |-> FALSE, len |-> 0, cap |-> 0]]

\* The goroutines that call Bootstrap on the namespace, once each.
NsCallers == {1, 2}

\* A namespace that owns the given shards, before any bootstrap, write,
\* read or flush; its process runs the given chain.
NewNamespace(owned, chain) ==
    [owned |-> owned, chain |-> chain, bs |-> "NotBootstrapped", closed |-> FALSE,
     shardBs |-> [sh \in 1..MaxShards |-> FALSE],
     unfulfilled |-> [sh \in 1..MaxShards |-> {}],
     fatal |-> [sh \in 1..MaxShards |-> FALSE],
     series |-> {},
     pc |-> [c \in NsCallers |-> "idle"],
     ret |-> [c \in NsCallers |-> "none"],
     processRuns |-> 0,
     gate |-> <<"none", 0, "none">>]

\* No namespace is looked at on its own.
NoNamespace == NewNamespace({}, "NoOpAll")

\* newBootstrapManager: state is the zero value, hasPending is false.
\* Every goroutine in callers is about to call Bootstrap().
ManagerInit(callers) ==
    /\ state = bootstrapNotStarted
    /\ hasPending = FALSE
    /\ fileOpsDisabled = FALSE
    /\ nowFn = NowStart
    /\ ownedNamespaces = <<1>>
    /\ pc = [c \in Callers |-> "idle"]
    /\ active = callers
    /\ result = [c \in Callers |-> "none"]
    /\ multiErr = [c \in Callers |-> 0]
    /\ passErr = [c \in Callers |-> <<>>]
    /\ ranges = [c \in Callers |-> <<>>]
    /\ snapshot = [c \in Callers |-> <<>>]
    /\ nsIdx = [c \in Callers |-> 0]
    /\ panicking = [c \in Callers |-> FALSE]
    /\ startPhase = [c \in Callers |-> "none"]
    /\ passes = [c \in Callers |-> 0]
    /\ disCalls = [c \in Callers |-> 0]
    /\ enCalls = [c \in Callers |-> 0]
    /\ enqSince = 0
    /\ kPerPass = [c \in Callers |-> <<>>]
    /\ quiet = [c \in Callers |-> FALSE]
    /\ phaseHist = <<bootstrapNotStarted>>
    /\ served = [c \in Callers |-> "none"]
    /\ passCalls = [c \in Callers |-> <<>>]
    /\ errSeen = [c \in Callers |-> 0]
    /\ mu = unlocked
    /\ ops = [c \in Callers |-> {}]

\* Report() has not been called: the gauge has no value yet.
ReportInit ==
    /\ status = -1
    /\ reportPc = "idle"
    /\ observed = FALSE

InitWith(callers) ==
    /\ ManagerInit(callers)
    /\ ReportInit
    /\ targetRangesCall = NoCall
    /\ chainRun = NoChainRun
    /\ dbNamespace = NoNamespace
    /\ consistencyCall = NoConsistencyCall
    /\ deleteCall = NoDeleteCall
    /\ shardDir = EmptyShardDir
    /\ opPool = NoOpPool
    /\ schema = NoSchema

Init == InitWith(Callers)

\* ------------------------------------------------------------- mediator

\* mediator.DisableFileOps: a plain flag, not a counter.
DisableFileOps(flag) == TRUE

\* mediator.EnableFileOps
EnableFileOps(flag) == FALSE

\* ------------------------------------------- the decisions of Bootstrap()

\* Variant: the bootstrapping case falls through to the default case.
EnqueuesNever(st) == FALSE

\* Variant: the test of the entry section is inverted.
EnqueuesInverted(st) == st # bootstrapping

\* Variant: a bootstrapped manager enqueues too (case bootstrapping, bootstrapped).
EnqueuesOnceStarted(st) == st # bootstrapNotStarted

\* The switch on m.state at the start of Bootstrap(): does the call set
\* hasPending and return errBootstrapEnqueued?
Enqueues(st) == st = bootstrapping

\* Variant: a pending request is seen but not cleared.
LoopDecisionKeepPending(currPending, st) ==
    IF currPending
    THEN [hasPending |-> TRUE, state |-> st, again |-> TRUE]
    ELSE [hasPending |-> FALSE, state |-> bootstrapped, again |-> FALSE]

\* Variant: the run ends after one pass whatever is pending.
LoopDecisionIgnorePending(currPending, st) ==
    [hasPending |-> currPending, state |-> bootstrapped, again |-> FALSE]

\* Variant: the loop ends without setting the state to bootstrapped.
LoopDecisionLeaveBootstrapping(currPending, st) ==
    IF currPending
    THEN [hasPending |-> FALSE, state |-> st, again |-> TRUE]
    ELSE [hasPending |-> FALSE, state |-> st, again |-> FALSE]

\* The section under m.Lock() at the end of the loop body, with
\* currPending the value of m.hasPending and st that of m.state: what the
\* two fields become and whether the loop goes round again.
LoopDecision(currPending, st) ==
    IF currPending
    THEN [hasPending |-> FALSE, state |-> st, again |-> TRUE]
    ELSE [hasPending |-> currPending, state |-> bootstrapped, again |-> FALSE]

\* Variant: the state is left as it was when the run collected errors.
StateStoredUnlessErrors(decided, st, errs) == IF errs > 0 THEN st ELSE decided

\* The state the section at the end of the loop body stores, with decided
\* the state it decided on, st the state before and errs the number of
\* errors in multiErr: the errors are not looked at.
StateStored(decided, st, errs) == decided

\* Variant: the section at the start of Bootstrap() keeps the lock on its
\* default path, so that the passes run under it.
HolderAfterSectionKeepsLock(c, path) == IF path = "run" THEN c ELSE unlocked

\* Who holds the lock when caller c leaves a section it entered with
\* m.Lock(), by the path "enqueued" or "run" of the section at the start
\* of Bootstrap() or at the end of the section of the loop ("endpass"):
\* nobody, m.Unlock() is called on every one of them, so that
\* namespace.Bootstrap is never called with the lock held.
HolderAfterSection(c, path) == unlocked

\* Variant: EnableFileOps is a statement after the loop, which a panic skips.
EnableRunsUnlessPanic(isPanicking) == ~isPanicking

\* defer m.mediator.EnableFileOps(): the call runs when Bootstrap() leaves,
\* by return or by panic.
EnableRuns(isPanicking) == TRUE

\* Variant: the range loop of bootstrap() returns at the first error.
NextNamespaceStopsOnError(outcome, i, n) ==
    IF outcome = "err" \/ i = n THEN "endpass" ELSE "namespace"

\* The range loop of bootstrap(), after namespace.Bootstrap has returned
\* for the i-th of n namespaces: an error is added to the multi-error and
\* the loop goes on; the pass ends after the last namespace.
NextNamespace(outcome, i, n) == IF i = n THEN "endpass" ELSE "namespace"

\* Variant: the ranges are computed anew for every namespace.
CallRangesPerNamespace(passRanges, now) == targetRanges(now, ropts)

\* The ranges namespace.Bootstrap is given: the value bootstrap() computed
\* at its head, whatever the clock says by now.
CallRanges(passRanges, now) == passRanges

\* The operations Bootstrap() invokes on the mediator before its loop.
EntryOps == {"mediator.DisableFileOps"}

\* The operations the head of bootstrap() invokes: the clock and the
\* retention options for targetRanges, and the database for the namespaces.
PassHeadOps == {"nowFn", "opts.GetRetentionOptions", "database.getOwnedNamespaces"}

\* The operations of one iteration of the range loop of bootstrap(): the
\* clock, namespace.Bootstrap and, when that returns, the clock again and
\* the log line with the namespace's id.
NamespaceOps(outcome) ==
    {"nowFn", "namespace.Bootstrap"}
        \cup (IF outcome = "panic" THEN {} ELSE {"namespace.ID", "log.Info"})

\* Variant: Bootstrap() ticks and flushes before it returns.
ExitOpsTickAndFlush == {"database.Tick", "database.Flush", "mediator.EnableFileOps"}

\* The operations Bootstrap() invokes after its loop: none but the
\* deferred EnableFileOps; ticking and flushing are left to their own course.
ExitOps == {"mediator.EnableFileOps"}

\* ---------------------------------------------------- Bootstrap(), steps

\* Bootstrap(), the section under m.Lock() at its start: a call that finds
\* the manager bootstrapping sets hasPending and returns
\* errBootstrapEnqueued; any other call sets the state to bootstrapping
\* and goes on.  The goroutines are alike, so they are numbered in the
\* order in which their calls take the lock.
BootstrapEnter(c) ==
    /\ pc[c] = "idle"
    /\ c \in active
    /\ mu = unlocked
    /\ mu' = HolderAfterSection(c, IF Enqueues(state) THEN "enqueued" ELSE "run")
    /\ \A d \in Callers : d < c => pc[d] # "idle"
    /\ startPhase' = [startPhase EXCEPT ![c] = state]
    /\ quiet' = [d \in Callers |-> d = c]
    /\ IF Enqueues(state)
       THEN /\ hasPending' = TRUE
            /\ result' = [result EXCEPT ![c] = errBootstrapEnqueued]
            /\ pc' = [pc EXCEPT ![c] = "returned"]
            /\ enqSince' = enqSince + 1
            /\ served' = [served EXCEPT ![c] = "waiting"]
            /\ UNCHANGED <<state, phaseHist>>
       ELSE /\ state' = bootstrapping
            /\ phaseHist' = IF state = bootstrapping THEN phaseHist
                            ELSE Append(phaseHist, bootstrapping)
            /\ pc' = [pc EXCEPT ![c] = "DisableFileOps"]
            /\ enqSince' = 0
            /\ UNCHANGED <<hasPending, result, served>>
    /\ UNCHANGED <<schema, opPool, shardDir, deleteCall, consistencyCall,
                   dbNamespace, chainRun, observed, reportPc, status, ops,
                   targetRangesCall, errSeen, passCalls, envVars, active,
                   multiErr, passErr, ranges, snapshot, nsIdx, panicking,
                   passes, disCalls, enCalls, kPerPass>>

\* Bootstrap(): m.mediator.DisableFileOps(), with EnableFileOps deferred,
\* and the empty multiErr.
BootstrapDisableFileOps(c) ==
    /\ pc[c] = "DisableFileOps"
    /\ fileOpsDisabled' = DisableFileOps(fileOpsDisabled)
    /\ disCalls' = [disCalls EXCEPT ![c] = @ + 1]
    /\ multiErr' = [multiErr EXCEPT ![c] = 0]
    /\ pc' = [pc EXCEPT ![c] = "bootstrap"]
    /\ ops' = [ops EXCEPT ![c] = @ \cup EntryOps]
    /\ UNCHANGED <<schema, opPool, shardDir, deleteCall, consistencyCall,
                   dbNamespace, chainRun, observed, reportPc, status,
                   targetRangesCall, errSeen, passCalls, mgrVars, nowFn,
                   ownedNamespaces, active, result, passErr, ranges,
                   snapshot, nsIdx, panicking, startPhase, passes, enCalls,
                   enqSince, kPerPass, quiet, phaseHist, served>>

\* bootstrap(), its head: the target ranges from the clock, a fresh
\* multi-error, and the namespaces the range loop will visit.
PassBegin(c) ==
    /\ pc[c] = "bootstrap"
    /\ ranges' = [ranges EXCEPT ![c] = targetRanges(nowFn, ropts)]
    /\ passErr' = [passErr EXCEPT ![c] = <<>>]
    /\ snapshot' = [snapshot EXCEPT ![c] = ownedNamespaces]
    /\ nsIdx' = [nsIdx EXCEPT ![c] = 1]
    /\ passes' = [passes EXCEPT ![c] = @ + 1]
    /\ served' = [d \in Callers |-> IF served[d] = "waiting" THEN "begun" ELSE served[d]]
    /\ pc' = [pc EXCEPT ![c] = IF ownedNamespaces = <<>> THEN "endpass" ELSE "namespace"]
    /\ ops' = [ops EXCEPT ![c] = @ \cup PassHeadOps]
    /\ UNCHANGED <<schema, opPool, shardDir, deleteCall, consistencyCall,
                   dbNamespace, chainRun, observed, reportPc, status,
                   targetRangesCall, errSeen, passCalls, mgrVars, envVars,
                   active, result, multiErr, panicking, startPhase, disCalls,
                   enCalls, enqSince, kPerPass, quiet, phaseHist>>

\* bootstrap(), one iteration of the loop over the namespaces:
\* namespace.Bootstrap(m.process, targetRanges) returns nil, returns an
\* error that is added to the pass's multi-error, or panics.  A panic
\* leaves both loops at once and unwinds Bootstrap().
NamespaceBootstrap(c, outcome) ==
    /\ pc[c] = "namespace"
    /\ nsIdx[c] <= Len(snapshot[c])
    /\ passCalls' = [passCalls EXCEPT ![c] =
                        Append(@, [namespace |-> snapshot[c][nsIdx[c]],
                                   targetRanges |-> CallRanges(ranges[c], nowFn)])]
    /\ CASE outcome = "panic" ->
              /\ panicking' = [panicking EXCEPT ![c] = TRUE]
              /\ pc' = [pc EXCEPT ![c] = "EnableFileOps"]
              /\ UNCHANGED <<passErr, nsIdx, errSeen>>
         [] outcome = "err" ->
              /\ passErr' = [passErr EXCEPT ![c] = Append(@, snapshot[c][nsIdx[c]])]
              /\ errSeen' = [errSeen EXCEPT ![c] = @ + 1]
              /\ nsIdx' = [nsIdx EXCEPT ![c] = @ + 1]
              /\ pc' = [pc EXCEPT ![c] = NextNamespace(outcome, nsIdx[c], Len(snapshot[c]))]
              /\ UNCHANGED panicking
         [] OTHER ->
              /\ nsIdx' = [nsIdx EXCEPT ![c] = @ + 1]
              /\ pc' = [pc EXCEPT ![c] = NextNamespace(outcome, nsIdx[c], Len(snapshot[c]))]
              /\ UNCHANGED <<passErr, panicking, errSeen>>
    /\ ops' = [ops EXCEPT ![c] = @ \cup NamespaceOps(outcome)]
    /\ UNCHANGED <<schema, opPool, shardDir, deleteCall, consistencyCall,
                   dbNamespace, chainRun, observed, reportPc, status,
                   targetRangesCall, mgrVars, envVars, active, result,
                   multiErr, ranges, snapshot, startPhase, passes, disCalls,
                   enCalls, enqSince, kPerPass, quiet, phaseHist, served>>

\* Bootstrap(), from the return of m.bootstrap() to the end of the loop
\* body: the pass's error joins multiErr, then under m.Lock() a pending
\* request is cleared and the loop goes round again; with none pending
\* the state becomes bootstrapped and the loop ends.
EndOfPass(c) ==
    LET d == LoopDecision(hasPending, state) IN
    /\ pc[c] = "endpass"
    /\ mu = unlocked
    /\ mu' = HolderAfterSection(c, "endpass")
    /\ multiErr' = [multiErr EXCEPT ![c] = @ + Len(passErr[c])]
    /\ hasPending' = d.hasPending
    /\ state' = StateStored(d.state, state, multiErr[c] + Len(passErr[c]))
    /\ phaseHist' = IF state' = state THEN phaseHist ELSE Append(phaseHist, state')
    /\ pc' = [pc EXCEPT ![c] = IF d.again THEN "bootstrap" ELSE "EnableFileOps"]
    /\ passErr' = [passErr EXCEPT ![c] = <<>>]
    /\ ranges' = [ranges EXCEPT ![c] = <<>>]
    /\ snapshot' = [snapshot EXCEPT ![c] = <<>>]
    /\ nsIdx' = [nsIdx EXCEPT ![c] = 0]
    /\ kPerPass' = [kPerPass EXCEPT ![c] = Append(@, enqSince)]
    /\ enqSince' = 0
    /\ served' = [e \in Callers |-> IF served[e] = "begun" THEN "done" ELSE served[e]]
    /\ passCalls' = [passCalls EXCEPT ![c] = <<>>]
    /\ UNCHANGED <<schema, opPool, shardDir, deleteCall, consistencyCall,
                   dbNamespace, chainRun, observed, reportPc, status, ops,
                   targetRangesCall, errSeen, envVars, active, result,
                   panicking, startPhase, passes, disCalls, enCalls, quiet>>

\* Bootstrap(), its exit: the deferred m.mediator.EnableFileOps() runs,
\* on a normal return and on a panic alike, and the caller gets
\* multiErr.FinalError() or the panic.
BootstrapReturn(c) ==
    /\ pc[c] = "EnableFileOps"
    /\ IF EnableRuns(panicking[c])
       THEN /\ fileOpsDisabled' = EnableFileOps(fileOpsDisabled)
            /\ enCalls' = [enCalls EXCEPT ![c] = @ + 1]
            /\ ops' = [ops EXCEPT ![c] = @ \cup ExitOps]
       ELSE UNCHANGED <<fileOpsDisabled, enCalls, ops>>
    /\ result' = [result EXCEPT ![c] = IF panicking[c] THEN "panic"
                                       ELSE FinalError(multiErr[c])]
    /\ pc' = [pc EXCEPT ![c] = "returned"]
    /\ panicking' = [panicking EXCEPT ![c] = FALSE]
    /\ multiErr' = [multiErr EXCEPT ![c] = 0]
    /\ passErr' = [passErr EXCEPT ![c] = <<>>]
    /\ ranges' = [ranges EXCEPT ![c] = <<>>]
    /\ snapshot' = [snapshot EXCEPT ![c] = <<>>]
    /\ nsIdx' = [nsIdx EXCEPT ![c] = 0]
    /\ passCalls' = [passCalls EXCEPT ![c] = <<>>]
    /\ errSeen' = [errSeen EXCEPT ![c] = 0]
    /\ UNCHANGED <<schema, opPool, shardDir, deleteCall,
                   consistencyCall, dbNamespace, chainRun, observed,
                   reportPc, status, targetRangesCall, mgrVars, nowFn,
                   ownedNamespaces, active, startPhase, passes, disCalls,
                   enqSince, kPerPass, quiet, phaseHist, served>>

\* ---------------------------------------------------------- environment

\* The injected clock moves on.
Tick ==
    /\ nowFn < NowStart + MaxTicks * TickSize
    /\ nowFn' = nowFn + TickSize
    /\ UNCHANGED <<schema, opPool, shardDir, deleteCall, consistencyCall,
                   dbNamespace, chainRun, observed, reportPc, status,
                   targetRangesCall, mgrVars, fileOpsDisabled,
                   ownedNamespaces, callVars, histVars>>

\* The database comes to own one more namespace.
AddNamespace ==
    /\ Len(ownedNamespaces) < MaxNamespaces
    /\ ownedNamespaces' = Append(ownedNamespaces, Len(ownedNamespaces) + 1)
    /\ UNCHANGED <<schema, opPool, shardDir, deleteCall, consistencyCall,
                   dbNamespace, chainRun, observed, reportPc, status,
                   targetRangesCall, mgrVars, fileOpsDisabled, nowFn,
                   callVars, histVars>>

\* ------------------------------------------------------- specifications

Next ==
    \/ \E c \in Callers : BootstrapEnter(c)
    \/ \E c \in Callers : BootstrapDisableFileOps(c)
    \/ \E c \in Callers : PassBegin(c)
    \/ \E c \in Callers : \E outcome \in NamespaceOutcomes : NamespaceBootstrap(c, outcome)
    \/ \E c \in Callers : EndOfPass(c)
    \/ \E c \in Callers : BootstrapReturn(c)
    \/ Tick
    \/ AddNamespace

Spec == Init /\ [][Next]_vars

\* Exactly two Bootstrap() calls, by two goroutines.
InitTwo == InitWith({1, 2})

SpecTwo == InitTwo /\ [][Next]_vars

\* The steps of a call that has got past its entry section, when every
\* namespace.Bootstrap call returns (nil or an error).
Progress(c) ==
    \/ BootstrapDisableFileOps(c)
    \/ PassBegin(c)
    \/ \E outcome \in NamespaceOutcomes \ {"panic"} : NamespaceBootstrap(c, outcome)
    \/ EndOfPass(c)
    \/ BootstrapReturn(c)

NextNoPanic ==
    \/ \E c \in Callers : BootstrapEnter(c)
    \/ \E c \in Callers : Progress(c)
    \/ Tick
    \/ AddNamespace

\* Every namespace.Bootstrap call returns, and the scheduler does not stop
\* while some goroutine inside Bootstrap() can take a step.
SpecFair ==
    /\ Init
    /\ [][NextNoPanic]_vars
    /\ WF_vars(\E c \in Callers : Progress(c))

\* Report(): the value the gauge is updated with.
GaugeValue(isBootstrapped) == IF isBootstrapped THEN 1 ELSE 0

\* Report() calls IsBootstrapped(), which reads m.state under m.RLock()
\* and releases the lock.
ReportIsBootstrapped ==
    /\ reportPc = "idle"
    /\ mu = unlocked
    /\ observed' = IsBootstrapped
    /\ reportPc' = "Update"
    /\ UNCHANGED <<schema, opPool, shardDir, deleteCall, consistencyCall,
                   dbNamespace, chainRun, mgrVars, envVars, callVars,
                   histVars, targetRangesCall, status>>

\* Report() updates the gauge with what IsBootstrapped() returned.
ReportUpdate ==
    /\ reportPc = "Update"
    /\ status' = GaugeValue(observed)
    /\ reportPc' = "idle"
    /\ observed' = FALSE
    /\ UNCHANGED <<schema, opPool, shardDir, deleteCall, consistencyCall,
                   dbNamespace, chainRun, mgrVars, envVars, callVars,
                   histVars, targetRangesCall>>

\* Two Bootstrap() calls, and a goroutine that calls Report() again and
\* again while they run.
NextReport ==
    \/ \E c \in Callers : BootstrapEnter(c)
    \/ \E c \in Callers : BootstrapDisableFileOps(c)
    \/ \E c \in Callers : PassBegin(c)
    \/ \E c \in Callers : \E outcome \in NamespaceOutcomes : NamespaceBootstrap(c, outcome)
    \/ \E c \in Callers : EndOfPass(c)
    \/ \E c \in Callers : BootstrapReturn(c)
    \/ Tick
    \/ AddNamespace
    \/ ReportIsBootstrapped
    \/ ReportUpdate

SpecReport == InitTwo /\ [][NextReport]_vars

\* The retention options targetRanges is tried on.
RetentionOptions ==
    [RetentionPeriod : 0..MaxPeriod, BlockSize : 1..MaxBlockSize,
     BufferPast : 0..MaxBuffer, BufferFuture : 0..MaxBuffer]

\* targetRanges is about to be called with a time and retention options.
InitRanges ==
    /\ ManagerInit({})
    /\ ReportInit
    /\ targetRangesCall \in [at : TimeFrom..(TimeFrom + TimeSpan),
                             ropts : RetentionOptions,
                             result : {<<>>}]
    /\ chainRun = NoChainRun
    /\ dbNamespace = NoNamespace
    /\ consistencyCall = NoConsistencyCall
    /\ deleteCall = NoDeleteCall
    /\ shardDir = EmptyShardDir
    /\ opPool = NoOpPool
    /\ schema = NoSchema

\* targetRanges(at) returns.
CallTargetRanges ==
    /\ targetRangesCall.result = <<>>
    /\ targetRangesCall' = [targetRangesCall EXCEPT
                               !.result = targetRanges(targetRangesCall.at,
                                                       targetRangesCall.ropts)]
    /\ UNCHANGED <<schema, opPool, shardDir, deleteCall, consistencyCall,
                   dbNamespace, chainRun, observed, reportPc, status,
                   mgrVars, envVars, callVars, histVars>>

NextRanges == CallTargetRanges

SpecRanges == InitRanges /\ [][NextRanges]_vars

\* ------------------------------------------------- the bootstrapper chain

\* The (shard, range) pairs a chain can be asked for: each shard with the
\* historical (1) or the recent (2) target range.
ShardRanges == (1..MaxShards) \X {1, 2}

\* Variant: every stage is handed the input of the whole chain.
StageInputWholeInput(input, residue) == input

\* What the chain hands its next stage: what the stages before it left
\* unfulfilled.
StageInput(input, residue) == residue

\* What the terminal bootstrapper fulfils of what it is handed: NoOpAll
\* nothing, NoOpNone all of it.
TerminalFulfils(terminal, given) == IF terminal = "NoOpNone" THEN given ELSE {}

\* A chain of MaxStages bootstrappers and a terminal is about to run on
\* some input.
InitChain ==
    /\ ManagerInit({})
    /\ ReportInit
    /\ targetRangesCall = NoCall
    /\ chainRun \in [input : SUBSET ShardRanges,
                     terminal : {"NoOpAll", "NoOpNone"},
                     stage : {1},
                     residue : {{}},
                     received : {<<>>},
                     fulfilledBy : {<<>>},
                     outcome : {"running"},
                     fulfilled : {{}},
                     unfulfilled : {{}}]
    /\ dbNamespace = NoNamespace
    /\ consistencyCall = NoConsistencyCall
    /\ deleteCall = NoDeleteCall
    /\ shardDir = EmptyShardDir
    /\ opPool = NoOpPool
    /\ schema = NoSchema

\* One bootstrapper of the chain runs: it fulfils some of the pairs it is
\* handed and reports the others unfulfilled.
ChainStage(fulfils) ==
    LET given == StageInput(chainRun.input,
                            IF chainRun.stage = 1 THEN chainRun.input
                            ELSE chainRun.residue) IN
    /\ chainRun.outcome = "running"
    /\ chainRun.stage <= MaxStages
    /\ fulfils \subseteq given
    /\ chainRun' = [chainRun EXCEPT
                       !.stage = @ + 1,
                       !.received = Append(@, given),
                       !.fulfilledBy = Append(@, fulfils),
                       !.residue = given \ fulfils]
    /\ UNCHANGED <<schema, opPool, shardDir, deleteCall, consistencyCall,
                   dbNamespace, mgrVars, envVars, callVars, histVars,
                   targetRangesCall, status, reportPc, observed>>

\* A bootstrapper of the chain returns a fatal error: the call is aborted.
ChainFatal ==
    /\ chainRun.outcome = "running"
    /\ chainRun.stage <= MaxStages
    /\ chainRun' = [chainRun EXCEPT !.outcome = "fatal"]
    /\ UNCHANGED <<schema, opPool, shardDir, deleteCall, consistencyCall,
                   dbNamespace, mgrVars, envVars, callVars, histVars,
                   targetRangesCall, status, reportPc, observed>>

\* The terminal bootstrapper runs and the chain returns: what no stage
\* fulfilled is the result's unfulfilled set, not an error.
ChainTerminal ==
    LET given == StageInput(chainRun.input,
                            IF chainRun.stage = 1 THEN chainRun.input
                            ELSE chainRun.residue)
        fulfils == TerminalFulfils(chainRun.terminal, given)
        all == UNION {chainRun.fulfilledBy[i] : i \in 1..Len(chainRun.fulfilledBy)}
    IN
    /\ chainRun.outcome = "running"
    /\ chainRun.stage = MaxStages + 1
    /\ chainRun' = [chainRun EXCEPT
                       !.stage = @ + 1,
                       !.received = Append(@, given),
                       !.fulfilledBy = Append(@, fulfils),
                       !.residue = given \ fulfils,
                       !.outcome = "returned",
                       !.fulfilled = all \cup fulfils,
                       !.unfulfilled = given \ fulfils]
    /\ UNCHANGED <<schema, opPool, shardDir, deleteCall, consistencyCall,
                   dbNamespace, mgrVars, envVars, callVars, histVars,
                   targetRangesCall, status, reportPc, observed>>

NextChain ==
    \/ \E fulfils \in SUBSET ShardRanges : ChainStage(fulfils)
    \/ ChainFatal
    \/ ChainTerminal

SpecChain == InitChain /\ [][NextChain]_vars

\* ------------------------------------------------- namespace bootstrap

\* The target ranges of a shard, taken as one unit of time.
TargetRangeIds == {1}

\* What process.Run can return for the owned shards: per shard the ranges
\* left unfulfilled and whether a fatal error occurred for it.  A chain
\* that is NoOpAll alone fulfils nothing and fails nowhere.
ProcessResults(chain, owned) ==
    IF chain = "NoOpAll"
    THEN {[sh \in owned |-> [unfulfilled |-> TargetRangeIds, fatal |-> FALSE]]}
    ELSE [owned -> [unfulfilled : SUBSET TargetRangeIds, fatal : BOOLEAN]]

\* Variant: a shard counts as bootstrapped when no fatal error occurred.
ShardBootstrappedIgnoresUnfulfilled(res) == ~res.fatal

\* Step 4: a shard is marked Bootstrapped iff nothing is left unfulfilled
\* and no fatal error occurred for it.
ShardBootstrapped(res) == res.unfulfilled = {} /\ ~res.fatal

\* Variant: a namespace counts as bootstrapped once some shard is.
NamespaceStateAnyShard(owned, marks) ==
    IF owned = {} \/ \E sh \in owned : marks[sh]
    THEN "Bootstrapped" ELSE "BootstrappedPartial"

\* Step 5: the namespace is Bootstrapped iff every owned shard is.
NamespaceState(owned, marks) ==
    IF \A sh \in owned : marks[sh] THEN "Bootstrapped" ELSE "BootstrappedPartial"

\* Variant: a call that finds the namespace bootstrapping goes on.
NamespaceBusyNever(bs) == FALSE

\* Step 1: does the call find another Bootstrap of the namespace in
\* progress?
NamespaceBusy(bs) == bs = "Bootstrapping"

\* Variant: installing the results replaces what the series hold.
InstallReplaces(series, blocks) == blocks

\* Step 4: the fulfilled results are folded into the in-memory series.
Install(series, blocks) == series \cup blocks

\* The write gate: admitted whenever the namespace is not closed.
WriteAdmitted(ns) == ~ns.closed

\* The read and flush gates of a shard: its Bootstrapped flag.
ShardGateOpen(ns, sh) == ns.shardBs[sh]

\* A namespace with some owned shards and some chain, nothing done yet.
InitNamespace ==
    /\ ManagerInit({})
    /\ ReportInit
    /\ targetRangesCall = NoCall
    /\ chainRun = NoChainRun
    /\ \E owned \in SUBSET (1..MaxShards), chain \in {"NoOpAll", "full"} :
          dbNamespace = NewNamespace(owned, chain)
    /\ consistencyCall = NoConsistencyCall
    /\ deleteCall = NoDeleteCall
    /\ shardDir = EmptyShardDir
    /\ opPool = NoOpPool
    /\ schema = NoSchema

NsUnchanged ==
    UNCHANGED <<schema, opPool, mgrVars, envVars, callVars, histVars, targetRangesCall,
                status, reportPc, observed, chainRun, consistencyCall,
                deleteCall, shardDir>>

\* Step 1, under the namespace's lock: a call that finds the namespace
\* bootstrapping fails with errNamespaceIsBootstrapping; any other call
\* sets it to Bootstrapping.  The callers are alike and numbered in the
\* order of their calls.
NsEnter(c) ==
    /\ dbNamespace.pc[c] = "idle"
    /\ \A d \in NsCallers : d < c => dbNamespace.pc[d] # "idle"
    /\ IF NamespaceBusy(dbNamespace.bs)
       THEN dbNamespace' = [dbNamespace EXCEPT
                               !.pc[c] = "returned",
                               !.ret[c] = errNamespaceIsBootstrapping]
       ELSE dbNamespace' = [dbNamespace EXCEPT
                               !.pc[c] = "shards",
                               !.bs = "Bootstrapping"]
    /\ NsUnchanged

\* Step 2: with no owned shards the namespace is Bootstrapped and the
\* call returns success; otherwise it goes on to process.Run.
NsShards(c) ==
    /\ dbNamespace.pc[c] = "shards"
    /\ IF dbNamespace.owned = {}
       THEN dbNamespace' = [dbNamespace EXCEPT
                               !.pc[c] = "returned",
                               !.ret[c] = "nil",
                               !.bs = "Bootstrapped"]
       ELSE dbNamespace' = [dbNamespace EXCEPT
                               !.pc[c] = "run",
                               !.processRuns = @ + 1]
    /\ NsUnchanged

\* Steps 3 to 6: process.Run returns res; per shard the fulfilled data is
\* installed, the unfulfilled ranges recorded and the shard marked; the
\* namespace is marked and its lock released.
NsFinish(c, res) ==
    LET ns == dbNamespace
        marks == [sh \in 1..MaxShards |->
                     IF sh \in ns.owned THEN ShardBootstrapped(res[sh])
                     ELSE ns.shardBs[sh]]
        blocks == {<<"block", sh, rg>> : sh \in ns.owned, rg \in TargetRangeIds}
        fulfilled == {b \in blocks : b[3] \notin res[b[2]].unfulfilled}
    IN
    /\ ns.pc[c] = "run"
    /\ res \in ProcessResults(ns.chain, ns.owned)
    /\ dbNamespace' = [ns EXCEPT
          !.pc[c] = "returned",
          !.ret[c] = IF \E sh \in ns.owned : res[sh].fatal THEN "err" ELSE "nil",
          !.shardBs = marks,
          !.unfulfilled = [sh \in 1..MaxShards |->
                              IF sh \in ns.owned THEN res[sh].unfulfilled
                              ELSE ns.unfulfilled[sh]],
          !.fatal = [sh \in 1..MaxShards |->
                        IF sh \in ns.owned THEN res[sh].fatal ELSE ns.fatal[sh]],
          !.series = Install(ns.series, fulfilled),
          !.bs = NamespaceState(ns.owned, marks)]
    /\ NsUnchanged

\* The namespace states, numbered, so that a write can carry the state it
\* was made in.
NsStateNo(bs) ==
    CASE bs = "NotBootstrapped" -> 0
      [] bs = "Bootstrapping" -> 1
      [] bs = "Bootstrapped" -> 2
      [] bs = "BootstrappedPartial" -> 3

\* The writes held by the series.
Written(series) == {d \in series : d[1] = "write"}

\* A write to the namespace: admitted, and buffered in the series, unless
\* the namespace is closed.  The datapoint records the namespace state it
\* was written in.
NsWrite(w) ==
    /\ \A d \in Written(dbNamespace.series) : d[2] # w
    /\ \A v \in 1..(w - 1) : \E d \in Written(dbNamespace.series) : d[2] = v
    /\ dbNamespace.gate # <<"write", w, "rejected">>
    /\ IF WriteAdmitted(dbNamespace)
       THEN dbNamespace' = [dbNamespace EXCEPT
                               !.series = @ \cup {<<"write", w, NsStateNo(dbNamespace.bs)>>},
                               !.gate = <<"write", w, "nil">>]
       ELSE dbNamespace' = [dbNamespace EXCEPT
                               !.gate = <<"write", w, "rejected">>]
    /\ NsUnchanged

\* A read of a shard: fails unless the shard is Bootstrapped.
NsRead(sh) ==
    /\ sh \in dbNamespace.owned
    /\ dbNamespace' = [dbNamespace EXCEPT
          !.gate = <<"read", sh, IF ShardGateOpen(dbNamespace, sh) THEN "nil"
                                 ELSE errShardNotBootstrappedToRead>>]
    /\ NsUnchanged

\* A flush of a shard: fails unless the shard is Bootstrapped.
NsFlush(sh) ==
    /\ sh \in dbNamespace.owned
    /\ dbNamespace' = [dbNamespace EXCEPT
          !.gate = <<"flush", sh, IF ShardGateOpen(dbNamespace, sh) THEN "nil"
                                  ELSE errShardNotBootstrappedToFlush>>]
    /\ NsUnchanged

\* The namespace is closed.
NsClose ==
    /\ ~dbNamespace.closed
    /\ \A c \in NsCallers : dbNamespace.pc[c] \in {"idle", "returned"}
    /\ dbNamespace' = [dbNamespace EXCEPT !.closed = TRUE]
    /\ NsUnchanged

NextOnNamespace ==
    \/ \E c \in NsCallers : NsEnter(c)
    \/ \E c \in NsCallers : NsShards(c)
    \/ \E c \in NsCallers :
          \E res \in ProcessResults(dbNamespace.chain, dbNamespace.owned) :
             NsFinish(c, res)
    \/ \E w \in 1..MaxWrites : NsWrite(w)
    \/ \E sh \in 1..MaxShards : NsRead(sh)
    \/ \E sh \in 1..MaxShards : NsFlush(sh)
    \/ NsClose

SpecNamespace == InitNamespace /\ [][NextOnNamespace]_vars

\* ---------------------------------------------- consistency result error

\* The errors a node can answer with.
NodeErrors ==
    {<<"badRequest">>, <<"internal">>, <<"plain">>,
     <<"wrap", "badRequest">>, <<"wrap", "internal">>, <<"wrap", "plain">>}

\* xerrors.InnerError of an error value.
InnerError(err) == IF err = nil THEN nil ELSE Tail(err)

\* IsBadRequestError: walks the error and its inner errors until one is a
\* bad request *rpc.Error.
RECURSIVE IsBadRequestError(_)
IsBadRequestError(err) ==
    IF err = nil THEN FALSE
    ELSE IF Head(err) = "badRequest" THEN TRUE
    ELSE IsBadRequestError(InnerError(err))

\* Variant: the loop keeps the first error whatever follows.
TopLevelStepKeepsFirst(topLevelErr, e) ==
    IF topLevelErr = nil THEN [top |-> e, stop |-> FALSE]
    ELSE [top |-> topLevelErr, stop |-> FALSE]

\* One iteration of the loop over errs: the error kept so far, and whether
\* the loop breaks.
TopLevelStep(topLevelErr, e) ==
    IF topLevelErr = nil THEN [top |-> e, stop |-> FALSE]
    ELSE IF IsBadRequestError(e) THEN [top |-> e, stop |-> TRUE]
    ELSE [top |-> topLevelErr, stop |-> FALSE]

\* The loop over errs from index i on.
RECURSIVE TopLevelErr(_, _, _)
TopLevelErr(errs, i, topLevelErr) ==
    IF i > Len(errs) THEN topLevelErr
    ELSE LET step == TopLevelStep(topLevelErr, errs[i]) IN
         IF step.stop THEN step.top ELSE TopLevelErr(errs, i + 1, step.top)

\* newConsistencyResultError.
newConsistencyResultError(enqueued, responded, errs) ==
    [success |-> enqueued - Len(errs),
     enqueued |-> enqueued,
     responded |-> responded,
     topLevelErr |-> TopLevelErr(errs, 1, nil),
     errs |-> errs]

\* The accessors, applied to a consistencyResultErr.
ResultInnerError(e) == e.topLevelErr
numResponded(e) == e.responded
numSuccess(e) == e.success
NumResponded(e) == numResponded(e)
NumSuccess(e) == numSuccess(e)
NumError(e) == numResponded(e) - numSuccess(e)

\* IsBadRequestError of a consistencyResultErr: it is no *rpc.Error, so the
\* walk goes on with its inner error.
ResultIsBadRequestError(e) == IsBadRequestError(ResultInnerError(e))

\* Lists of up to MaxErrs node errors.
ErrLists == UNION {[1..n -> NodeErrors] : n \in 0..MaxErrs}

\* Any arguments, call not yet made.
InitConsistency ==
    /\ ManagerInit({})
    /\ ReportInit
    /\ targetRangesCall = NoCall
    /\ chainRun = NoChainRun
    /\ dbNamespace = NoNamespace
    /\ \E errs \in ErrLists, enqueued \in 0..MaxNodes, responded \in 0..MaxNodes :
          consistencyCall = [errs |-> errs, enqueued |-> enqueued,
                             responded |-> responded, called |-> FALSE,
                             result |-> ZeroResult]
    /\ deleteCall = NoDeleteCall
    /\ shardDir = EmptyShardDir
    /\ opPool = NoOpPool
    /\ schema = NoSchema

\* The call is made.
CallNewConsistencyResultError ==
    /\ ~consistencyCall.called
    /\ consistencyCall' = [consistencyCall EXCEPT
          !.called = TRUE,
          !.result = newConsistencyResultError(consistencyCall.enqueued,
                                               consistencyCall.responded,
                                               consistencyCall.errs)]
    /\ UNCHANGED <<schema, opPool, shardDir, deleteCall, mgrVars, envVars,
                   callVars, histVars, targetRangesCall, status, reportPc,
                   observed, chainRun, dbNamespace>>

NextConsistency == CallNewConsistencyResultError

SpecConsistency == InitConsistency /\ [][NextConsistency]_vars

\* ------------------------------------------------------------ DeleteFiles

\* Variant: the loop stops at the first path it cannot remove.
AfterFailedRemoveStops(i, n) == n + 1

\* Where the loop over the paths goes on after a remove that failed: with
\* the next path.
AfterFailedRemove(i, n) == i + 1

\* Some paths exist, and DeleteFiles is called with any list of paths.
InitDelete ==
    /\ ManagerInit({})
    /\ ReportInit
    /\ targetRangesCall = NoCall
    /\ chainRun = NoChainRun
    /\ dbNamespace = NoNamespace
    /\ consistencyCall = NoConsistencyCall
    /\ shardDir = EmptyShardDir
    /\ \E exists \in SUBSET (1..MaxPaths) :
       \E files \in UNION {[1..n -> 1..MaxPaths] : n \in 0..MaxFiles} :
          deleteCall = [before |-> exists, exists |-> exists, files |-> files,
                        i |-> 1, errs |-> 0, pc |-> "loop", ret |-> "none"]
    /\ opPool = NoOpPool
    /\ schema = NoSchema

DeleteUnchanged ==
    UNCHANGED <<schema, opPool, mgrVars, envVars, callVars, histVars, targetRangesCall,
                status, reportPc, observed, chainRun, dbNamespace,
                consistencyCall, shardDir>>

\* One iteration: the path is removed, or the failure to remove it is
\* added to the errors.
DeleteFilesRemove ==
    LET d == deleteCall
        path == d.files[d.i]
    IN
    /\ d.pc = "loop"
    /\ d.i <= Len(d.files)
    /\ IF path \in d.exists
       THEN deleteCall' = [d EXCEPT !.exists = @ \ {path}, !.i = @ + 1]
       ELSE deleteCall' = [d EXCEPT !.errs = @ + 1,
                                    !.i = AfterFailedRemove(d.i, Len(d.files))]
    /\ DeleteUnchanged

\* The loop is over: DeleteFiles returns the collected errors, nil when
\* there are none.
DeleteFilesReturn ==
    /\ deleteCall.pc = "loop"
    /\ deleteCall.i > Len(deleteCall.files)
    /\ deleteCall' = [deleteCall EXCEPT
          !.pc = "returned",
          !.ret = IF deleteCall.errs > 0 THEN "err" ELSE "nil"]
    /\ DeleteUnchanged

NextDelete == DeleteFilesRemove \/ DeleteFilesReturn

SpecDelete == InitDelete /\ [][NextDelete]_vars

\* ---------------------------------------------------------- fileset files

\* What info files hold.
InfoData == {1, 2}

\* digest.Checksum of a file's content; never 0.
Checksum(content) == 1 + ((content * 3) % 7)

\* What a digest file can hold: the digest of an info file's content.
DigestData == {Checksum(data) : data \in InfoData}

\* What a checkpoint file can hold: the digest of a digest file.
CheckpointData == {Checksum(digests) : digests \in DigestData}

\* DataFilesetExistsAt: is the checkpoint file of the block start there?
DataFilesetExistsAt(dir, blockStart) == dir.checkpoint[blockStart] # 0

\* Variant: the info file is not compared with the digest recorded for it.
InfoFileValidUnchecked(dir, blockStart) ==
    /\ dir.checkpoint[blockStart] # 0
    /\ dir.digest[blockStart] # 0
    /\ Checksum(dir.digest[blockStart]) = dir.checkpoint[blockStart]

\* forEachInfoFile's checks on one info file, in order: the checkpoint file
\* exists, the digest file exists and has the digest the checkpoint
\* records, the info file has the digest the digest file records.
InfoFileValid(dir, blockStart) ==
    /\ dir.checkpoint[blockStart] # 0
    /\ dir.digest[blockStart] # 0
    /\ Checksum(dir.digest[blockStart]) = dir.checkpoint[blockStart]
    /\ Checksum(dir.info[blockStart]) = dir.digest[blockStart]

\* The block starts in dir.info that are at least b, in ascending order.
RECURSIVE InfoFilesFrom(_, _)
InfoFilesFrom(dir, b) ==
    IF b > MaxFilesets THEN <<>>
    ELSE (IF dir.info[b] # 0 THEN <<b>> ELSE <<>>) \o InfoFilesFrom(dir, b + 1)

\* An empty shard directory.
InitFilesets ==
    /\ ManagerInit({})
    /\ ReportInit
    /\ targetRangesCall = NoCall
    /\ chainRun = NoChainRun
    /\ dbNamespace = NoNamespace
    /\ consistencyCall = NoConsistencyCall
    /\ deleteCall = NoDeleteCall
    /\ shardDir = EmptyShardDir
    /\ opPool = NoOpPool
    /\ schema = NoSchema

FilesetsUnchanged ==
    UNCHANGED <<schema, opPool, mgrVars, envVars, callVars, histVars, targetRangesCall,
                status, reportPc, observed, chainRun, dbNamespace,
                consistencyCall, deleteCall>>

\* createDataFile with the info suffix.  (What an earlier pass over the
\* directory returned is forgotten when a file is written.)
CreateInfoFile(blockStart, data) ==
    /\ shardDir.pc # "scan"
    /\ shardDir' = [EmptyShardDir EXCEPT
          !.info = shardDir.info, !.digest = shardDir.digest,
          !.checkpoint = shardDir.checkpoint, !.info[blockStart] = data]
    /\ FilesetsUnchanged

\* createDataFile with the digest suffix.
CreateDigestFile(blockStart, data) ==
    /\ shardDir.pc # "scan"
    /\ shardDir' = [EmptyShardDir EXCEPT
          !.info = shardDir.info, !.digest = shardDir.digest,
          !.checkpoint = shardDir.checkpoint, !.digest[blockStart] = data]
    /\ FilesetsUnchanged

\* createDataFile with the checkpoint suffix.
CreateCheckpointFile(blockStart, data) ==
    /\ shardDir.pc # "scan"
    /\ shardDir' = [EmptyShardDir EXCEPT
          !.info = shardDir.info, !.digest = shardDir.digest,
          !.checkpoint = shardDir.checkpoint, !.checkpoint[blockStart] = data]
    /\ FilesetsUnchanged

\* forEachInfoFile starts: the info files of the shard, by time ascending.
ForEachInfoFileBegin ==
    /\ shardDir.pc = "idle"
    /\ shardDir' = [shardDir EXCEPT
          !.pc = "scan",
          !.infoFiles = InfoFilesFrom(shardDir, 1),
          !.i = 1,
          !.visited = <<>>]
    /\ FilesetsUnchanged

\* One info file: the callback gets its name and content if its fileset
\* passes the checks; otherwise the loop continues with the next.
ForEachInfoFileStep ==
    LET dir == shardDir
        blockStart == dir.infoFiles[dir.i]
    IN
    /\ dir.pc = "scan"
    /\ dir.i <= Len(dir.infoFiles)
    /\ shardDir' = [dir EXCEPT
          !.i = @ + 1,
          !.visited = IF InfoFileValid(dir, blockStart)
                      THEN Append(@, <<blockStart, dir.info[blockStart]>>)
                      ELSE @]
    /\ FilesetsUnchanged

\* forEachInfoFile returns.
ForEachInfoFileEnd ==
    /\ shardDir.pc = "scan"
    /\ shardDir.i > Len(shardDir.infoFiles)
    /\ shardDir' = [shardDir EXCEPT !.pc = "done"]
    /\ FilesetsUnchanged

NextFilesets ==
    \/ \E b \in 1..MaxFilesets, data \in InfoData : CreateInfoFile(b, data)
    \/ \E b \in 1..MaxFilesets, data \in DigestData : CreateDigestFile(b, data)
    \/ \E b \in 1..MaxFilesets, data \in CheckpointData : CreateCheckpointFile(b, data)
    \/ ForEachInfoFileBegin
    \/ ForEachInfoFileStep
    \/ ForEachInfoFileEnd

SpecFilesets == InitFilesets /\ [][NextFilesets]_vars

\* ------------------------------------------------------------ opArrayPool

\* make([]m3db.Op, 0, capacity), the pool's allocator.
NewOpArray(capacity) == [len |-> 0, cap |-> capacity]

\* append of one op: in place while there is room, otherwise into a new
\* array of at least double the capacity.
AppendOp(arr) ==
    IF arr.len < arr.cap THEN [arr EXCEPT !.len = @ + 1]
    ELSE [len |-> arr.len + 1, cap |-> IF arr.cap = 0 THEN 1 ELSE 2 * arr.cap]

\* Variant: Put hands the array to the pool as it is.
PutSliceAsIs(arr) == arr

\* Put: ops = ops[:0], the array keeps its capacity.
PutSlice(arr) == [arr EXCEPT !.len = 0]

\* newOpArrayPool(size, capacity): the object pool is filled with size
\* arrays from the allocator.
InitOpPool ==
    /\ ManagerInit({})
    /\ ReportInit
    /\ targetRangesCall = NoCall
    /\ chainRun = NoChainRun
    /\ dbNamespace = NoNamespace
    /\ consistencyCall = NoConsistencyCall
    /\ deleteCall = NoDeleteCall
    /\ shardDir = EmptyShardDir
    /\ schema = NoSchema
    /\ \E size \in 0..MaxPoolSize, capacity \in 0..MaxCapacity :
          opPool = [size |-> size, capacity |-> capacity,
                    pool |-> [i \in 1..size |-> NewOpArray(capacity)],
                    held |-> <<>>,
                    got |-> [valid |-> FALSE, len |-> 0, cap |-> 0]]

OpPoolUnchanged ==
    UNCHANGED <<mgrVars, envVars, callVars, histVars, targetRangesCall,
                status, reportPc, observed, chainRun, dbNamespace,
                consistencyCall, deleteCall, shardDir, schema>>

\* Get: the object pool hands out its oldest array, or a new one from the
\* allocator when it is empty.
OpPoolGet ==
    LET arr == IF opPool.pool # <<>> THEN Head(opPool.pool)
               ELSE NewOpArray(opPool.capacity)
    IN
    /\ Len(opPool.held) < MaxHeld
    /\ opPool' = [opPool EXCEPT
          !.pool = IF @ # <<>> THEN Tail(@) ELSE @,
          !.held = Append(@, arr),
          !.got = [valid |-> TRUE, len |-> arr.len, cap |-> arr.cap]]
    /\ OpPoolUnchanged

\* The client appends an op to an array it holds.
OpPoolAppend(i) ==
    /\ i \in 1..Len(opPool.held)
    /\ opPool.held[i].len < MaxOps
    /\ opPool' = [opPool EXCEPT !.held[i] = AppendOp(@)]
    /\ OpPoolUnchanged

\* Put of an array the client holds: the object pool takes it unless it is
\* full.  The client lets go of the array, or keeps using it.
OpPoolPut(i, keeps) ==
    /\ i \in 1..Len(opPool.held)
    /\ opPool' = [opPool EXCEPT
          !.pool = IF Len(@) < opPool.size
                   THEN Append(@, PutSlice(opPool.held[i])) ELSE @,
          !.held = IF keeps THEN @
                   ELSE SubSeq(@, 1, i - 1) \o SubSeq(@, i + 1, Len(@))]
    /\ OpPoolUnchanged

NextOpPool ==
    \/ OpPoolGet
    \/ \E i \in 1..MaxHeld : OpPoolAppend(i)
    \/ \E i \in 1..MaxHeld, keeps \in BOOLEAN : OpPoolPut(i, keeps)

SpecOpPool == InitOpPool /\ [][NextOpPool]_vars

\* ----------------------------------------------------- msgpack schema

\* Variant: the tables are indexed by the object type itself.
TableIndexNoOffset(objType) == objType

\* The index of an object type in the two tables, int(objType)-1.
TableIndex(objType) == objType - 1

\* setMinNumObjectFieldsForType and setCurrNumObjectFieldsForType: the
\* table with the entry of the object type set.
setNumObjectFieldsForType(table, objType, numFields) ==
    [table EXCEPT ![TableIndex(objType)] = numFields]

\* The calls init() makes, in order: first those that set the minimum
\* numbers of fields, then those that set the current ones.
InitCalls ==
    << <<"min", rootObjectType, minNumRootObjectFields>>,
       <<"min", indexInfoType, minNumIndexInfoFields>>,
       <<"min", indexSummariesInfoType, minNumIndexSummariesInfoFields>>,
       <<"min", indexBloomFilterInfoType, minNumIndexBloomFilterInfoFields>>,
       <<"min", indexEntryType, minNumIndexEntryFields>>,
       <<"min", indexSummaryType, minNumIndexSummaryFields>>,
       <<"min", logInfoType, minNumLogInfoFields>>,
       <<"min", logEntryType, minNumLogEntryFields>>,
       <<"min", logMetadataType, minNumLogMetadataFields>>,
       <<"curr", rootObjectType, currNumRootObjectFields>>,
       <<"curr", indexInfoType, currNumIndexInfoFields>>,
       <<"curr", indexSummariesInfoType, currNumIndexSummariesInfoFields>>,
       <<"curr", indexBloomFilterInfoType, currNumIndexBloomFilterInfoFields>>,
       <<"curr", indexEntryType, currNumIndexEntryFields>>,
       <<"curr", indexSummaryType, currNumIndexSummaryFields>>,
       <<"curr", logInfoType, currNumLogInfoFields>>,
       <<"curr", logEntryType, currNumLogEntryFields>>,
       <<"curr", logMetadataType, currNumLogMetadataFields>> >>

\* numFieldsForType: the two entries of the object type, or the run-time
\* panic of an index out of range.
numFieldsForType(sch, objType) ==
    LET i == TableIndex(objType) IN
    IF i \in DOMAIN sch.minNumObjectFields /\ i \in DOMAIN sch.currNumObjectFields
    THEN [panicked |-> FALSE, min |-> sch.minNumObjectFields[i],
          curr |-> sch.currNumObjectFields[i]]
    ELSE [panicked |-> TRUE, min |-> 0, curr |-> 0]

\* The package is loaded; init() has not run; numFieldsForType will be
\* called with some object type, or with numObjectTypes.
InitSchema ==
    /\ ManagerInit({})
    /\ ReportInit
    /\ targetRangesCall = NoCall
    /\ chainRun = NoChainRun
    /\ dbNamespace = NoNamespace
    /\ consistencyCall = NoConsistencyCall
    /\ deleteCall = NoDeleteCall
    /\ shardDir = EmptyShardDir
    /\ opPool = NoOpPool
    /\ \E objType \in unknownType..numObjectTypes :
          schema = [NoSchema EXCEPT !.objType = objType]

SchemaUnchanged ==
    UNCHANGED <<mgrVars, envVars, callVars, histVars, targetRangesCall,
                status, reportPc, observed, chainRun, dbNamespace,
                consistencyCall, deleteCall, shardDir, opPool>>

\* init(): the two tables are made.
SchemaInitMake ==
    /\ schema.pc = 0
    /\ schema' = [schema EXCEPT
          !.minNumObjectFields = MakeInts(numObjectTypes),
          !.currNumObjectFields = MakeInts(numObjectTypes),
          !.pc = 1]
    /\ SchemaUnchanged

\* init(): its next call of a set...ForType function.
SchemaInitSet ==
    LET call == InitCalls[schema.pc] IN
    /\ schema.pc \in 1..Len(InitCalls)
    /\ IF call[1] = "min"
       THEN schema' = [schema EXCEPT
               !.minNumObjectFields = setNumObjectFieldsForType(@, call[2], call[3]),
               !.pc = @ + 1]
       ELSE schema' = [schema EXCEPT
               !.currNumObjectFields = setNumObjectFieldsForType(@, call[2], call[3]),
               !.pc = @ + 1]
    /\ SchemaUnchanged

\* numFieldsForType is called, after init() has returned.
SchemaLookup ==
    LET r == numFieldsForType(schema, schema.objType) IN
    /\ schema.pc = Len(InitCalls) + 1
    /\ ~schema.called
    /\ schema' = [schema EXCEPT
          !.called = TRUE, !.panicked = r.panicked, !.min = r.min, !.curr = r.curr]
    /\ SchemaUnchanged

NextSchema == SchemaInitMake \/ SchemaInitSet \/ SchemaLookup

SpecSchema == InitSchema /\ [][NextSchema]_vars

\* ----------------------------------------------------------- properties

\* The caller is executing the body of bootstrapManager.bootstrap.
InPass(c) == pc[c] \in {"namespace", "endpass"}

\* The caller is inside Bootstrap().
InCall(c) == pc[c] \notin {"idle", "returned"}

\* The caller's Bootstrap() has returned a value (it did not panic).
Returned(c) == pc[c] = "returned" /\ result[c] \in {"nil", "err"}

\* No other call is in progress, and none has started since c's did.
Alone(c) == quiet[c] /\ \A d \in Callers \ {c} : ~InCall(d)

RECURSIVE SumOver(_, _)
SumOver(f, S) == IF S = {} THEN 0
                 ELSE LET x == CHOOSE x \in S : TRUE IN f[x] + SumOver(f, S \ {x})

\* C1: single-flight.  In every reachable state at most one Bootstrap()
\* call is executing a namespace bootstrap pass.
C1_SingleFlight ==
    \A c, d \in Callers : (InPass(c) /\ InPass(d)) => c = d

\* C1 witness: one call is in a pass while another call is still inside
\* Bootstrap() and a third has been enqueued.
C1_Witness ==
    \E c, d, e \in Callers :
        /\ InPass(c)
        /\ d # c /\ InCall(d)
        /\ result[e] = errBootstrapEnqueued

\* C2: whenever some Bootstrap() call is executing a namespace bootstrap
\* pass, file operations on the mediator are disabled.
C2_FileOpsDisabledDuringPass ==
    \A c \in Callers : InPass(c) => fileOpsDisabled

\* C3: a Bootstrap() call that is not enqueued calls DisableFileOps exactly
\* once, before its first pass, and EnableFileOps exactly once, after its
\* last pass, however many passes it makes and also when it panics.
C3_DisableEnableOncePerRun ==
    \A c \in Callers :
        /\ disCalls[c] <= 1 /\ enCalls[c] <= 1
        /\ pc[c] = "DisableFileOps" => (passes[c] = 0 /\ disCalls[c] = 0)
        /\ pc[c] \in {"bootstrap", "namespace", "endpass", "EnableFileOps"}
                => (disCalls[c] = 1 /\ enCalls[c] = 0)
        /\ (pc[c] = "returned" /\ result[c] # errBootstrapEnqueued)
                => (disCalls[c] = 1 /\ enCalls[c] = 1 /\ passes[c] >= 1)

\* C3 witness: a call that made two passes and then panicked has returned.
C3_Witness ==
    \E c \in Callers :
        /\ pc[c] = "returned" /\ result[c] = "panic"
        /\ passes[c] >= 2
        /\ enCalls[c] = 1

\* C4: hasPending implies that the phase is Bootstrapping.
C4_PendingOnlyWhileBootstrapping ==
    hasPending => state = bootstrapping

\* C4 witness: a request is pending.
C4_Witness ==
    hasPending /\ \E c \in Callers : result[c] = errBootstrapEnqueued

\* C5: a call that finds the phase Bootstrapping sets hasPending, returns
\* errBootstrapEnqueued and does nothing else; a call that finds another
\* phase is never enqueued.
C5_EnqueuedFrame ==
    [][\A c \in Callers :
        /\ (pc[c] = "idle" /\ pc'[c] # "idle") =>
              IF state = bootstrapping
              THEN /\ result'[c] = errBootstrapEnqueued
                   /\ pc'[c] = "returned"
                   /\ hasPending'
                   /\ state' = state
                   /\ fileOpsDisabled' = fileOpsDisabled
                   /\ passes' = passes /\ disCalls' = disCalls /\ enCalls' = enCalls
                   /\ passes[c] = 0 /\ disCalls[c] = 0 /\ enCalls[c] = 0
                   /\ \A d \in Callers \ {c} : pc'[d] = pc[d]
              ELSE /\ result'[c] # errBootstrapEnqueued
                   /\ pc'[c] = "DisableFileOps"
        /\ (result'[c] = errBootstrapEnqueued /\ result[c] # errBootstrapEnqueued) =>
              (pc[c] = "idle" /\ state = bootstrapping)
        /\ result[c] = errBootstrapEnqueued =>
              (result'[c] = result[c] /\ pc'[c] = pc[c] /\ passes'[c] = 0)]_vars

\* C5 witness: one call was enqueued, another found the manager
\* bootstrapped and ran.
C5_Witness ==
    \E c, d \in Callers :
        /\ result[c] = errBootstrapEnqueued
        /\ startPhase[d] = bootstrapped /\ passes[d] >= 1

\* C6: coalescing.  However many calls are enqueued during one pass of the
\* running call, it makes exactly one further pass for them: a finished
\* run made a pass after every pass with enqueued calls, and none after
\* a pass without.
C6_Coalescing ==
    \A c \in Callers :
        /\ Len(kPerPass[c]) <= passes[c]
        /\ (InCall(c) /\ pc[c] # "EnableFileOps") =>
                \A i \in 1..Len(kPerPass[c]) : kPerPass[c][i] >= 1
        /\ Returned(c) =>
                /\ Len(kPerPass[c]) = passes[c]
                /\ \A i \in 1..passes[c] : (kPerPass[c][i] >= 1) <=> (i < passes[c])

\* C6 witness: two calls were enqueued during the first pass of a run that
\* ended after its second pass.
C6_Witness ==
    \E c \in Callers : Returned(c) /\ kPerPass[c] = <<2, 0>> /\ passes[c] = 2

\* C7: of two Bootstrap() calls, the one that finds the phase Bootstrapping
\* returns errBootstrapEnqueued without making a pass, and at most two
\* passes are made in all.
C7_TwoCalls ==
    /\ \A c \in Callers :
            startPhase[c] = bootstrapping =>
                (result[c] = errBootstrapEnqueued /\ passes[c] = 0)
    /\ SumOver(passes, Callers) <= 2

\* C7 witness: the second call was enqueued and the first has returned
\* after two passes.
C7_Witness ==
    \E c, d \in Callers :
        /\ result[d] = errBootstrapEnqueued
        /\ Returned(c) /\ passes[c] = 2

\* C8: every call that returned errBootstrapEnqueued is eventually followed
\* by a complete pass that began after the call set hasPending.  A call is
\* made once and stays served once it is, so this is: from some point on
\* every enqueued call has been served.
C8_EnqueuedIsServed ==
    <>[](\A c \in Callers : result[c] = errBootstrapEnqueued => served[c] = "done")

\* C8 witness: a pass that began after a call was enqueued has ended.
C8_Witness ==
    \E c \in Callers : result[c] = errBootstrapEnqueued /\ served[c] = "done"

\* C9: after Bootstrap() returns nil with no other call in progress or
\* started since, the phase is Bootstrapped and IsBootstrapped() is true;
\* on a fresh manager the phases were NotStarted, Bootstrapping,
\* Bootstrapped.
C9_BootstrappedAfterNil ==
    \A c \in Callers :
        (pc[c] = "returned" /\ result[c] = "nil" /\ Alone(c)) =>
            /\ state = bootstrapped
            /\ IsBootstrapped
            /\ (\A d \in Callers \ {c} : pc[d] = "idle") =>
                    phaseHist = <<bootstrapNotStarted, bootstrapping, bootstrapped>>

\* C9 witness: the first call on a fresh manager has returned nil.
C9_Witness ==
    \E c \in Callers :
        /\ pc[c] = "returned" /\ result[c] = "nil" /\ Alone(c)
        /\ \A d \in Callers \ {c} : pc[d] = "idle"

\* C10: a Bootstrap() call on a bootstrapped manager, with no other call
\* meanwhile, leaves the phase Bootstrapped when it returns (the phase is
\* Bootstrapping while the call runs) and makes exactly one pass.
C10_RebootstrapIsIdempotent ==
    \A c \in Callers :
        (startPhase[c] = bootstrapped /\ pc[c] = "returned"
            /\ result[c] # "panic" /\ Alone(c)) =>
                /\ state = bootstrapped
                /\ IsBootstrapped
                /\ passes[c] = 1

\* C10 witness: such a call has returned.
C10_Witness ==
    \E c \in Callers :
        /\ startPhase[c] = bootstrapped /\ pc[c] = "returned"
        /\ result[c] # "panic" /\ Alone(c)

\* C11: the section at the end of a pass is one step under the lock: with
\* hasPending set it clears the flag, keeps the phase bootstrapping and
\* runs another pass; with hasPending clear it sets the phase to
\* bootstrapped and leaves the loop.  The phase only ever moves from
\* bootstrapNotStarted to bootstrapping, from bootstrapped to
\* bootstrapping and from bootstrapping to bootstrapped, so it never
\* comes back to bootstrapNotStarted.
C11_LoopDecisionAndTransitions ==
    [][ /\ \A c \in Callers :
             (pc[c] = "endpass" /\ pc'[c] # "endpass") =>
                 IF hasPending
                 THEN /\ hasPending' = FALSE
                      /\ state = bootstrapping
                      /\ state' = bootstrapping
                      /\ pc'[c] = "bootstrap"
                 ELSE /\ hasPending' = FALSE
                      /\ state' = bootstrapped
                      /\ pc'[c] = "EnableFileOps"
        /\ state' # state =>
             <<state, state'>> \in { <<bootstrapNotStarted, bootstrapping>>,
                                     <<bootstrapped, bootstrapping>>,
                                     <<bootstrapping, bootstrapped>> }
        /\ state # bootstrapNotStarted => state' # bootstrapNotStarted
      ]_vars

\* A call that found the manager bootstrapped has gone round the loop
\* twice and left it bootstrapped: all three transitions and both
\* branches of the decision have been taken.
C11_Witness ==
    \E c \in Callers :
        /\ Returned(c)
        /\ startPhase[c] = bootstrapped
        /\ passes[c] >= 2
        /\ state = bootstrapped
        /\ phaseHist[1] = bootstrapNotStarted

\* The namespaces of the calls in log, in call order.
CalledNamespaces(log) == [i \in 1..Len(log) |-> log[i].namespace]

\* C12: an error of one namespace does not stop the pass, and an error in
\* a pass does not stop the replay: a pass that ends has called
\* namespace.Bootstrap for every namespace of its snapshot, a pass that
\* ends with hasPending set is followed by another pass whatever it
\* collected, and a Bootstrap() call that ran returns nil exactly when no
\* namespace.Bootstrap call of any of its passes returned an error, and
\* otherwise an aggregate that holds every one of those errors.
C12_ErrorsAreIsolated ==
    [][ \A c \in Callers :
          /\ (pc[c] = "namespace" /\ pc'[c] = "endpass") =>
                 CalledNamespaces(passCalls'[c]) = snapshot[c]
          /\ (pc[c] = "endpass" /\ pc'[c] # "endpass" /\ hasPending) =>
                 /\ pc'[c] = "bootstrap"
                 /\ multiErr'[c] = errSeen[c]
          /\ (pc[c] = "EnableFileOps" /\ pc'[c] = "returned" /\ ~panicking[c]) =>
                 /\ result'[c] = "nil" <=> errSeen[c] = 0
                 /\ result'[c] = "err" <=> errSeen[c] > 0
                 /\ multiErr[c] = errSeen[c]
      ]_vars

\* A call is returning the aggregate of three errors collected in two
\* passes over at most two namespaces: both passes failed, the replay ran
\* all the same, and one pass went on to its second namespace after its
\* first one failed.
C12_Witness ==
    \E c \in Callers :
        /\ pc[c] = "EnableFileOps"
        /\ ~panicking[c]
        /\ passes[c] = 2
        /\ Len(ownedNamespaces) = 2
        /\ multiErr[c] = 3
        /\ errSeen[c] = 3

\* C13: every pass starts by computing the target ranges from the clock
\* as it then reads and by taking the namespaces the database then owns;
\* it then calls namespace.Bootstrap once for each namespace of that
\* snapshot, in the snapshot's order, and gives every one of them the
\* ranges computed at the start of the pass.
C13_PassInputsAreFresh ==
    [][ \A c \in Callers :
          /\ (pc[c] = "bootstrap" /\ pc'[c] # "bootstrap") =>
                 /\ ranges'[c] = targetRanges(nowFn, ropts)
                 /\ snapshot'[c] = ownedNamespaces
                 /\ passCalls'[c] = <<>>
          /\ (pc[c] = "namespace" /\ passCalls'[c] # passCalls[c]) =>
                 /\ Len(passCalls[c]) < Len(snapshot[c])
                 /\ passCalls'[c] =
                        Append(passCalls[c],
                               [namespace |-> snapshot[c][Len(passCalls[c]) + 1],
                                targetRanges |-> ranges[c]])
                 /\ snapshot'[c] = snapshot[c]
                 /\ ranges'[c] = ranges[c]
          /\ (pc[c] = "namespace" /\ pc'[c] = "endpass") =>
                 passCalls'[c] = [i \in 1..Len(snapshot[c]) |->
                                     [namespace |-> snapshot[c][i],
                                      targetRanges |-> ranges[c]]]
      ]_vars

\* The second pass of a call has called two namespaces, a snapshot the
\* first state of the database did not have, and the clock has moved on
\* since the pass computed its ranges.
C13_Witness ==
    \E c \in Callers :
        /\ pc[c] = "endpass"
        /\ passes[c] = 2
        /\ snapshot[c] = <<1, 2>>
        /\ Len(passCalls[c]) = 2
        /\ ranges[c] = targetRanges(NowStart, ropts)
        /\ ranges[c] # targetRanges(nowFn, ropts)

\* ------------------------------------------------ targetRanges by itself

\* C14: targetRanges(now) returns exactly two ranges.  With floor(t) the
\* largest multiple of blockSize not above t, the first is the historical
\* range [floor(now - period), floor(now - blockSize - bufferPast) +
\* blockSize), marked incremental, and the second is the recent range
\* from the end of the first to floor(now + bufferFuture) + blockSize,
\* not incremental.  For now = 1000000, period = 10, blockSize = 2 and
\* both buffers 1 they are [999990, 999998) and [999998, 1000002).
C14_TargetRanges ==
    LET call == targetRangesCall
        r == call.ropts
        floor(t) == (t \div r.BlockSize) * r.BlockSize
    IN  call.result # <<>> =>
          /\ Len(call.result) = 2
          /\ call.result[1] =
                 [Start |-> floor(call.at - r.RetentionPeriod),
                  End |-> floor(call.at - r.BlockSize - r.BufferPast) + r.BlockSize,
                  Incremental |-> TRUE]
          /\ call.result[2] =
                 [Start |-> call.result[1].End,
                  End |-> floor(call.at + r.BufferFuture) + r.BlockSize,
                  Incremental |-> FALSE]
          /\ ( /\ call.at = 1000000
               /\ r = [RetentionPeriod |-> 10, BlockSize |-> 2,
                       BufferPast |-> 1, BufferFuture |-> 1] ) =>
                 call.result =
                     << [Start |-> 999990, End |-> 999998, Incremental |-> TRUE],
                        [Start |-> 999998, End |-> 1000002, Incremental |-> FALSE] >>

\* targetRanges has returned for the arguments of the example.
C14_Witness ==
    /\ targetRangesCall.at = 1000000
    /\ targetRangesCall.ropts = [RetentionPeriod |-> 10, BlockSize |-> 2,
                                 BufferPast |-> 1, BufferFuture |-> 1]
    /\ Len(targetRangesCall.result) = 2

\* The instants a range covers, its start included and its end not.
Instants(rng) == rng.Start..(rng.End - 1)

\* C15: whatever the time and the retention options, the ranges
\* targetRanges returns are sorted and disjoint, every endpoint is a
\* multiple of blockSize, every range has its start at or before its end,
\* the historical range ends where the recent one starts, and together
\* they cover exactly [floor(now - period), floor(now + bufferFuture) +
\* blockSize).
C15_RangesWellFormed ==
    LET call == targetRangesCall
        r == call.ropts
        res == call.result
        floor(t) == (t \div r.BlockSize) * r.BlockSize
    IN  res # <<>> =>
          /\ \A i \in 1..Len(res) :
                /\ res[i].Start % r.BlockSize = 0
                /\ res[i].End % r.BlockSize = 0
                /\ res[i].Start <= res[i].End
          /\ \A i, j \in 1..Len(res) :
                i < j => /\ res[i].Start <= res[j].Start
                         /\ res[i].End <= res[j].Start
          /\ res[1].End = res[2].Start
          /\ UNION {Instants(res[i]) : i \in 1..Len(res)} =
                 floor(call.at - r.RetentionPeriod)
                     ..(floor(call.at + r.BufferFuture) + r.BlockSize - 1)

\* C16: when period <= blockSize + bufferPast the historical range is
\* empty and targetRanges leaves it out; in no case does the result hold
\* a range whose start is after its end, or an empty historical range.
C16_EmptyHistoricalOmitted ==
    LET call == targetRangesCall
        r == call.ropts
        res == call.result
    IN  res # <<>> =>
          /\ r.RetentionPeriod <= r.BlockSize + r.BufferPast =>
                 \A i \in 1..Len(res) : ~res[i].Incremental
          /\ \A i \in 1..Len(res) :
                /\ res[i].Start <= res[i].End
                /\ res[i].Incremental => res[i].Start < res[i].End

\* C17: aligning to blocks never makes the window smaller: the first
\* range starts at or before now - period, the last range ends after
\* now + bufferFuture, and every instant from now - period to
\* now + bufferFuture lies in one of the ranges.
C17_WindowNotShrunk ==
    LET call == targetRangesCall
        r == call.ropts
        res == call.result
    IN  res # <<>> =>
          /\ res[1].Start <= call.at - r.RetentionPeriod
          /\ res[Len(res)].End > call.at + r.BufferFuture
          /\ \A t \in (call.at - r.RetentionPeriod)..(call.at + r.BufferFuture) :
                \E i \in 1..Len(res) : t \in Instants(res[i])

\* targetRanges has returned for a time in the middle of a block and a
\* retention period that is not a multiple of the block size: both ends
\* of the window were moved outwards.
C17_Witness ==
    LET call == targetRangesCall
        r == call.ropts
    IN  /\ call.result # <<>>
        /\ r.BlockSize = 3
        /\ r.RetentionPeriod = 10
        /\ call.result[1].Start < call.at - r.RetentionPeriod
        /\ call.result[2].End > call.at + r.BufferFuture + 1

\* The caller is the next goroutine to call Bootstrap().
NextToCall(d) ==
    /\ d \in active
    /\ pc[d] = "idle"
    /\ \A e \in Callers : e < d => pc[e] # "idle"

\* C18: once a panic of a bootstrapper has propagated out of a Bootstrap()
\* call, that call has called EnableFileOps all the same, the phase is
\* bootstrapping, and the lock is free: the next Bootstrap() call gets
\* through its section under the lock instead of blocking on it.
C18_PanicLeavesManagerUsable ==
    \A c \in Callers :
        (pc[c] = "returned" /\ result[c] = "panic") =>
            /\ disCalls[c] = 1
            /\ enCalls[c] = 1
            /\ state = bootstrapping
            /\ mu = unlocked
            /\ \A d \in Callers : NextToCall(d) => ENABLED BootstrapEnter(d)

\* A call has panicked and returned, no call is in progress, one call
\* made since has returned and another is about to be made.
C18_Witness ==
    \E c, d, e \in Callers :
        /\ pc[c] = "returned" /\ result[c] = "panic"
        /\ c < d /\ d < e
        /\ pc[d] = "returned" /\ result[d] = errBootstrapEnqueued
        /\ quiet[d]
        /\ NextToCall(e)
        /\ \A f \in Callers : ~InCall(f)

\* C19 as stated: the only operations a Bootstrap() call performs on its
\* collaborators are DisableFileOps, EnableFileOps, getOwnedNamespaces,
\* the clock and namespace.Bootstrap, and after its last pass it only
\* re-enables file operations and returns.
C19_OnlyFiveOperations ==
    [][ \A c \in Callers :
          /\ ops'[c] \subseteq {"mediator.DisableFileOps", "mediator.EnableFileOps",
                                "database.getOwnedNamespaces", "nowFn",
                                "namespace.Bootstrap"}
          /\ (pc[c] = "EnableFileOps" /\ pc'[c] = "returned") =>
                 ops'[c] \ ops[c] \subseteq {"mediator.EnableFileOps"}
      ]_vars

\* C19, amended: a Bootstrap() call never ticks or flushes.  The only
\* operations it performs on its collaborators are DisableFileOps,
\* EnableFileOps, getOwnedNamespaces, the clock and namespace.Bootstrap,
\* and three that only read or report: the retention options, the id of
\* a namespace and the logger.  After its last pass it only re-enables
\* file operations and returns.
C19_NoTickNoFlush ==
    [][ \A c \in Callers :
          /\ ops'[c] \subseteq {"mediator.DisableFileOps", "mediator.EnableFileOps",
                                "database.getOwnedNamespaces", "nowFn",
                                "namespace.Bootstrap", "opts.GetRetentionOptions",
                                "namespace.ID", "log.Info"}
          /\ (pc[c] = "EnableFileOps" /\ pc'[c] = "returned") =>
                 ops'[c] \ ops[c] \subseteq {"mediator.EnableFileOps"}
      ]_vars

\* A call that ran two passes has returned a value: it has been through
\* every statement of Bootstrap() and of bootstrap().
C19_Witness ==
    \E c \in Callers :
        /\ Returned(c)
        /\ passes[c] = 2
        /\ "namespace.Bootstrap" \in ops[c]
        /\ "mediator.EnableFileOps" \in ops[c]

\* ------------------------------------------- IsBootstrapped() and Report()

\* C20: IsBootstrapped() returns true exactly when the phase it reads is
\* bootstrapped, false for bootstrapNotStarted and for bootstrapping, and
\* it changes neither the phase nor hasPending; Report() then sets the
\* gauge to 1 when IsBootstrapped() returned true and to 0 when it
\* returned false.
C20_IsBootstrappedAndReport ==
    [][ /\ (reportPc = "idle" /\ reportPc' = "Update") =>
              /\ observed' = TRUE <=> state = bootstrapped
              /\ observed' = FALSE <=> state \in {bootstrapNotStarted, bootstrapping}
              /\ state' = state
              /\ hasPending' = hasPending
        /\ (reportPc = "Update" /\ reportPc' = "idle") =>
              /\ observed => status' = 1
              /\ ~observed => status' = 0
      ]_vars

\* The gauge was set to 1 by an earlier Report(); a new bootstrap has
\* started since, and the Report() in progress has read false and is
\* about to set the gauge to 0.
C20_Witness ==
    /\ status = 1
    /\ reportPc = "Update"
    /\ observed = FALSE
    /\ state = bootstrapping

\* ------------------------------------------------ the chain, by itself

\* C21: along the chain every stage is handed exactly what the stage
\* before it was handed and did not fulfil, the first one the whole input,
\* so that what is unfulfilled never grows; when the chain returns, its
\* fulfilled and unfulfilled sets make up the input, share nothing, no
\* pair was fulfilled by two stages, and behind a NoOpAll terminal the
\* last residue is returned as the unfulfilled set, not as an error.
C21_ChainIsAFold ==
    LET r == chainRun
        n == Len(r.received)
    IN  /\ n >= 1 => r.received[1] = r.input
        /\ \A i \in 1..(n - 1) :
              /\ r.received[i + 1] = r.received[i] \ r.fulfilledBy[i]
              /\ r.received[i + 1] \subseteq r.received[i]
        /\ r.outcome = "returned" =>
              /\ r.fulfilled \cup r.unfulfilled = r.input
              /\ r.fulfilled \cap r.unfulfilled = {}
              /\ \A i, j \in 1..n : i < j => r.fulfilledBy[i] \cap r.fulfilledBy[j] = {}
              /\ r.unfulfilled = r.received[n] \ r.fulfilledBy[n]
              /\ r.terminal = "NoOpAll" => r.unfulfilled = r.received[n]
        /\ (r.stage = MaxStages + 2 /\ r.terminal = "NoOpAll") =>
              r.outcome = "returned"

\* A chain ending in NoOpAll has returned: its two bootstrappers each
\* fulfilled something and something is left unfulfilled.
C21_Witness ==
    /\ chainRun.outcome = "returned"
    /\ chainRun.terminal = "NoOpAll"
    /\ chainRun.fulfilledBy[1] # {}
    /\ chainRun.fulfilledBy[2] # {}
    /\ chainRun.unfulfilled # {}

\* Has some Bootstrap of the namespace run the process and installed its
\* results?
NsBootstrapRan == \E c \in NsCallers : dbNamespace.ret[c] \in {"nil", "err"}

\* C22: once a namespace bootstrap has installed its results, an owned shard
\* is Bootstrapped iff its unfulfilled set is empty and no fatal error
\* occurred for it; a read of a shard that is not Bootstrapped fails with
\* errShardNotBootstrappedToRead and a flush with
\* errShardNotBootstrappedToFlush; and when the chain is NoOpAll alone,
\* every owned shard is left with its whole target range unfulfilled and is
\* not Bootstrapped.
C22_ShardReadiness ==
    [][LET ns == dbNamespace'
           gate == dbNamespace'.gate
       IN
       /\ (\E c \in NsCallers : ns.ret[c] \in {"nil", "err"}) =>
             \A sh \in ns.owned :
                /\ ns.shardBs[sh] <=> (ns.unfulfilled[sh] = {} /\ ~ns.fatal[sh])
                /\ ns.chain = "NoOpAll" =>
                      ns.unfulfilled[sh] = TargetRangeIds /\ ~ns.shardBs[sh]
       /\ (\E sh \in 1..MaxShards : NsRead(sh)) =>
             (gate[3] = "nil" <=> dbNamespace.shardBs[gate[2]])
                /\ gate[3] \in {"nil", errShardNotBootstrappedToRead}
       /\ (\E sh \in 1..MaxShards : NsFlush(sh)) =>
             (gate[3] = "nil" <=> dbNamespace.shardBs[gate[2]])
                /\ gate[3] \in {"nil", errShardNotBootstrappedToFlush}
      ]_vars

\* A bootstrap has left shard 1 Bootstrapped and shard 2 with a range
\* unfulfilled, and a read of shard 2 has just been turned away.
C22_Witness ==
    /\ NsBootstrapRan
    /\ dbNamespace.owned = {1, 2}
    /\ dbNamespace.shardBs[1]
    /\ ~dbNamespace.shardBs[2]
    /\ dbNamespace.unfulfilled[2] # {}
    /\ dbNamespace.gate = <<"read", 2, errShardNotBootstrappedToRead>>

\* Is some Bootstrap of the namespace between its entry and its return?
NsBootstrapInProgress == \E c \in NsCallers : dbNamespace.pc[c] \in {"shards", "run"}

\* C23: after a namespace bootstrap the namespace is Bootstrapped iff every
\* owned shard is Bootstrapped and BootstrappedPartial otherwise; a
\* namespace with no owned shards is marked Bootstrapped and its Bootstrap
\* returns success without the process ever being run.
C23_NamespaceState ==
    LET ns == dbNamespace IN
    /\ (NsBootstrapRan /\ ~NsBootstrapInProgress) =>
          /\ ns.bs \in {"Bootstrapped", "BootstrappedPartial"}
          /\ ns.bs = "Bootstrapped" <=> \A sh \in ns.owned : ns.shardBs[sh]
    /\ ns.owned = {} =>
          /\ ns.processRuns = 0
          /\ \A c \in NsCallers :
                /\ ns.pc[c] # "run"
                /\ ns.ret[c] # "err"
                /\ ns.ret[c] = "nil" /\ ~NsBootstrapInProgress => ns.bs = "Bootstrapped"

\* A bootstrap returned without error and left the namespace
\* BootstrappedPartial: one of its two shards is Bootstrapped, the other
\* is not.
C23_Witness ==
    /\ dbNamespace.owned = {1, 2}
    /\ dbNamespace.ret[1] = "nil"
    /\ dbNamespace.pc[2] = "idle"
    /\ dbNamespace.bs = "BootstrappedPartial"
    /\ dbNamespace.shardBs[1]
    /\ ~dbNamespace.shardBs[2]

\* C24: a Bootstrap of the namespace made while another is in progress
\* fails with errNamespaceIsBootstrapping and leaves the namespace's and the
\* shards' state as they were; every exit of a Bootstrap releases the
\* namespace (it is Bootstrapping only while a call is in progress), so a
\* call made when none is in progress goes ahead.
C24_NamespaceLock ==
    [][LET ns == dbNamespace
           nt == dbNamespace'
       IN
       /\ \A c \in NsCallers :
             (ns.pc[c] = "idle" /\ nt.pc[c] # "idle") =>
                IF NsBootstrapInProgress
                THEN /\ nt.pc[c] = "returned"
                     /\ nt.ret[c] = errNamespaceIsBootstrapping
                     /\ nt = [ns EXCEPT !.pc[c] = nt.pc[c], !.ret[c] = nt.ret[c]]
                ELSE /\ nt.pc[c] = "shards"
                     /\ nt.bs = "Bootstrapping"
       /\ (nt.bs = "Bootstrapping") <=>
             (\E c \in NsCallers : nt.pc[c] \in {"shards", "run"})
      ]_vars

\* The second call was turned away while the first was running the
\* process.
C24_Witness ==
    /\ dbNamespace.pc[1] = "run"
    /\ dbNamespace.ret[2] = errNamespaceIsBootstrapping
    /\ dbNamespace.bs = "Bootstrapping"

\* C25: a write is admitted in every namespace state other than closed,
\* before, during and after bootstrap alike, and what the series hold is
\* never lost: data written before the bootstrap results are installed is
\* still there after the installation.
C25_WritesAdmittedAndKept ==
    [][LET ns == dbNamespace
           nt == dbNamespace'
       IN
       /\ \A w \in 1..MaxWrites :
             (NsWrite(w) /\ ~ns.closed) =>
                /\ nt.gate = <<"write", w, "nil">>
                /\ <<"write", w, NsStateNo(ns.bs)>> \in nt.series
       /\ ns.series \subseteq nt.series
      ]_vars

\* A datapoint written while the namespace was bootstrapping is held next
\* to the block the bootstrap then installed for shard 1.
C25_Witness ==
    /\ dbNamespace.ret[1] = "nil"
    /\ dbNamespace.pc[2] = "idle"
    /\ <<"write", 1, 1>> \in dbNamespace.series
    /\ <<"block", 1, 1>> \in dbNamespace.series

\* C26: for every non-empty list of node errors of which at least one is a
\* bad request error, the error built by newConsistencyResultError is a bad
\* request error (IsBadRequestError of it is true); when none of them is,
\* its inner error is errs[0]; for the empty list its inner error is nil.
C26_TopLevelError ==
    LET errs == consistencyCall.errs
        e == consistencyCall.result
        someBadRequest == \E i \in 1..Len(errs) : IsBadRequestError(errs[i])
    IN
    consistencyCall.called =>
       /\ someBadRequest => ResultIsBadRequestError(e)
       /\ (errs # <<>> /\ ~someBadRequest) => ResultInnerError(e) = errs[1]
       /\ errs = <<>> => ResultInnerError(e) = nil

\* The call was made with an internal error first and a wrapped bad
\* request error second: the result carries the second.
C26_Witness ==
    /\ consistencyCall.called
    /\ Len(consistencyCall.errs) = 3
    /\ consistencyCall.errs[1] = <<"internal">>
    /\ consistencyCall.errs[2] = <<"wrap", "badRequest">>
    /\ ResultInnerError(consistencyCall.result) = <<"wrap", "badRequest">>

\* C27: for a result built from len(errs) <= responded <= enqueued, NumError
\* is the number of nodes that responded with an error, len(errs),
\* NumSuccess is at most NumResponded, and neither is negative.
C27_CountsAreConsistent ==
    LET errs == consistencyCall.errs
        e == consistencyCall.result
    IN
    (/\ consistencyCall.called
     /\ Len(errs) <= consistencyCall.responded
     /\ consistencyCall.responded <= consistencyCall.enqueued) =>
       /\ NumError(e) = Len(errs)
       /\ NumSuccess(e) <= NumResponded(e)
       /\ NumSuccess(e) >= 0
       /\ NumError(e) >= 0

\* The paths handed to DeleteFiles.
DeletePaths == {deleteCall.files[k] : k \in 1..Len(deleteCall.files)}

CompleteFilesets ==
    {b \in 1..MaxFilesets :
        /\ shardDir.info[b] # 0
        /\ shardDir.digest[b] # 0
        /\ shardDir.checkpoint[b] # 0
        /\ shardDir.checkpoint[b] = Checksum(shardDir.digest[b])
        /\ shardDir.digest[b] = Checksum(shardDir.info[b])}

\* C29: a fileset is present only once its checkpoint file exists:
\* DataFilesetExistsAt is false with the info file alone and true once the
\* checkpoint file is there; and forEachInfoFile visits exactly the
\* filesets that are complete, each once with its info data and in time
\* order, skipping the others.
C29_FilesetPresence ==
    /\ \A b \in 1..MaxFilesets :
          /\ (shardDir.info[b] # 0 /\ shardDir.checkpoint[b] = 0) =>
                ~DataFilesetExistsAt(shardDir, b)
          /\ shardDir.checkpoint[b] # 0 => DataFilesetExistsAt(shardDir, b)
    /\ shardDir.pc = "done" =>
          /\ {shardDir.visited[k] : k \in 1..Len(shardDir.visited)}
                = {<<b, shardDir.info[b]>> : b \in CompleteFilesets}
          /\ \A j, k \in 1..Len(shardDir.visited) :
                j < k => shardDir.visited[j][1] < shardDir.visited[k][1]

\* A pass over two filesets has returned: the first has an info file and a
\* checkpoint file but no digest file and was skipped, the second is
\* complete and was visited.
C29_Witness ==
    /\ shardDir.pc = "done"
    /\ shardDir.info[1] # 0
    /\ shardDir.digest[1] = 0
    /\ shardDir.checkpoint[1] # 0
    /\ 2 \in CompleteFilesets
    /\ shardDir.visited = <<<<2, shardDir.info[2]>>>>

\* C30: the phase is set to Bootstrapped at the end of a run whatever
\* errors it met: when Bootstrap() returns a non-nil error, even with every
\* namespace.Bootstrap call of every pass failing, and no other call is in
\* progress or has panicked, the state is bootstrapped and IsBootstrapped()
\* is true.
C30_BootstrappedDespiteErrors ==
    \A c \in Callers :
        (/\ pc[c] = "returned"
         /\ result[c] = "err"
         /\ \A d \in Callers \ {c} : ~InCall(d) /\ result[d] # "panic") =>
            /\ state = bootstrapped
            /\ IsBootstrapped

\* A run over the one namespace there is has returned an error after a
\* single pass, so every namespace.Bootstrap call it made failed, and no
\* call is in progress.
C30_Witness ==
    \E c \in Callers :
        /\ pc[c] = "returned"
        /\ result[c] = "err"
        /\ Len(ownedNamespaces) = 1
        /\ passes[c] = 1
        /\ \A d \in Callers \ {c} : ~InCall(d) /\ result[d] # "panic"
        /\ IsBootstrapped

\* The Bootstrap() calls that returned errBootstrapEnqueued while c's run
\* was in its loop: those counted at the end of each of its passes, and
\* those since, while it has not left the loop.
EnqueuedDuring(c) ==
    SumOver(kPerPass[c], 1..Len(kPerPass[c]))
        + (IF pc[c] \in {"DisableFileOps", "bootstrap", "namespace", "endpass"}
           THEN enqSince ELSE 0)

\* C31: when every namespace.Bootstrap call returns and finitely many
\* Bootstrap() calls are made, a call that enters the run loop returns; and
\* it makes at most 1 + n passes, n being the number of calls that returned
\* errBootstrapEnqueued while it was running.  A call is made once and stays
\* returned, so termination is: from some point on no call is inside
\* Bootstrap().
C31_RunTerminates ==
    /\ [](\A c \in Callers : passes[c] <= 1 + EnqueuedDuring(c))
    /\ <>[](\A c \in Callers : pc[c] \in {"idle", "returned"})

\* A run has returned after as many passes as there are callers: during
\* each pass but the last, one other call was enqueued.
C31_Witness ==
    \E c \in Callers :
        /\ Returned(c)
        /\ passes[c] = NumCallers
        /\ EnqueuedDuring(c) = NumCallers - 1
        /\ \A i \in 1..(NumCallers - 1) : kPerPass[c][i] = 1

\* A panic has propagated out of some Bootstrap() call.
Panicked == \E c \in Callers : pc[c] = "returned" /\ result[c] = "panic"

\* C32: once a panic has propagated out of a running Bootstrap() call the
\* manager is stuck: the state is bootstrapping then and after every later
\* step, IsBootstrapped() is false, every Bootstrap() call made from then on
\* returns errBootstrapEnqueued, and no pass is started.
C32_StuckAfterPanic ==
    [][/\ Panicked' => (state' = bootstrapping /\ ~IsBootstrapped')
       /\ Panicked =>
             /\ passes' = passes
             /\ \A d \in Callers :
                   (pc[d] = "idle" /\ pc'[d] # "idle") =>
                      (pc'[d] = "returned" /\ result'[d] = errBootstrapEnqueued)
      ]_vars

\* The first call panicked in its first pass; the two other calls have
\* been turned away with errBootstrapEnqueued, and the state is still
\* bootstrapping.
C32_Witness ==
    /\ pc[1] = "returned" /\ result[1] = "panic" /\ passes[1] = 1
    /\ \A d \in Callers \ {1} :
          pc[d] = "returned" /\ result[d] = errBootstrapEnqueued /\ passes[d] = 0
    /\ state = bootstrapping
    /\ hasPending

\* C33: in every reachable state the EnableFileOps calls made so far are no
\* more than the DisableFileOps calls, call by call and in total; and when
\* no Bootstrap() call is in progress the two totals are equal and file
\* operations are enabled.
C33_EnableMatchesDisable ==
    /\ \A c \in Callers : enCalls[c] <= disCalls[c]
    /\ SumOver(enCalls, Callers) <= SumOver(disCalls, Callers)
    /\ (\A c \in Callers : ~InCall(c)) =>
          /\ SumOver(enCalls, Callers) = SumOver(disCalls, Callers)
          /\ ~fileOpsDisabled

\* Every call has returned: one ran to its end, one ran and panicked, one
\* was enqueued; file operations were disabled twice and enabled twice.
C33_Witness ==
    /\ \A c \in Callers : pc[c] = "returned"
    /\ \E c \in Callers : result[c] = "panic"
    /\ \E c \in Callers : Returned(c) /\ passes[c] >= 1
    /\ SumOver(disCalls, Callers) = 2
    /\ SumOver(enCalls, Callers) = 2
    /\ ~fileOpsDisabled

\* C34: after any sequence of Get, append and Put on an opArrayPool, the
\* array a Get returns has length 0 and a capacity of at least the capacity
\* the pool was created with; so has every array waiting in the pool.
C34_GetReturnsEmptyArray ==
    /\ opPool.got.valid =>
          (opPool.got.len = 0 /\ opPool.got.cap >= opPool.capacity)
    /\ \A i \in 1..Len(opPool.pool) :
          opPool.pool[i].len = 0 /\ opPool.pool[i].cap >= opPool.capacity

\* Get has returned an array that grew beyond the pool's capacity in the
\* hands of the client and came back through Put, while the client still
\* holds another array with ops in it.
C34_Witness ==
    /\ opPool.got.valid
    /\ opPool.capacity = 2
    /\ opPool.got.cap > opPool.capacity
    /\ opPool.got.len = 0
    /\ \E i \in 1..Len(opPool.held) : opPool.held[i].len > 0

\* The number of fields init() registers for an object type, kind being
\* "min" or "curr".
Registered(kind, objType) ==
    LET k == CHOOSE k \in 1..Len(InitCalls) :
                 InitCalls[k][1] = kind /\ InitCalls[k][2] = objType
    IN InitCalls[k][3]

\* C35: for every object type from rootObjectType through logMetadataType,
\* numFieldsForType returns the (min, curr) pair init() registered for the
\* type, with 1 <= min <= curr; for unknownType the lookup is out of range;
\* and of the object types it is exactly those from rootObjectType through
\* logMetadataType whose index objType - 1 lies within both tables.
C35_NumFieldsForType ==
    LET objType == schema.objType IN
    /\ (schema.called /\ objType \in rootObjectType..logMetadataType) =>
          /\ ~schema.panicked
          /\ schema.min = Registered("min", objType)
          /\ schema.curr = Registered("curr", objType)
          /\ 1 <= schema.min
          /\ schema.min <= schema.curr
    /\ (schema.called /\ objType = unknownType) => schema.panicked
    /\ schema.pc > Len(InitCalls) =>
          \A u \in unknownType..logMetadataType :
             (/\ (u - 1) \in DOMAIN schema.minNumObjectFields
              /\ (u - 1) \in DOMAIN schema.currNumObjectFields)
                <=> u \in rootObjectType..logMetadataType

\* The lookup of indexInfoType has returned 6 and 8, the one pair whose
\* minimum is below the current number.
C35_Witness ==
    /\ schema.called
    /\ schema.objType = indexInfoType
    /\ ~schema.panicked
    /\ schema.min = 6
    /\ schema.curr = 8

====
